---- MODULE Spec2Model ----
(***************************************************************************)
(* A model of example_app/client.py (PTTClient): the reconnect loop run(), *)
(* one_session() with its teardown, the inbound listener receiver(), the   *)
(* capture thread audio_worker(), the two input modalities (pynput         *)
(* press/release callbacks, terminal toggle thread) and the finalize-now   *)
(* requests control_stop_and_clear() that they hand to the event loop.     *)
(*                                                                         *)
(* The event loop (run / one_session / receiver), every capture thread and *)
(* the input handlers are separate threads of control; each action below   *)
(* is one step of one of them, so that all their interleavings are         *)
(* explored.  Time is not modelled: a sleep is a step, and a join with a   *)
(* timeout may return although the thread is still alive.                  *)
(*                                                                         *)
(* Spec / FairSpec is the client as a whole, one capture cycle being one   *)
(* step and a frame being known by its number of samples.  PartSpec takes  *)
(* three parts of it one at a time and in full detail: the listener with   *)
(* the messages it can receive, frame() / checksum_int16() on byte         *)
(* sequences, and the capture threads of one Active session statement by   *)
(* statement with the bytes they read and submit.  TestSpec is the client  *)
(* of tests/test_rejection_system.py, RejectionTestClient, sending chunks  *)
(* with a wrong checksum to a server that closes the connection at its     *)
(* corruption threshold.                                                   *)
(***************************************************************************)
EXTENDS Integers, Sequences, FiniteSets, Bags, TLC

\* ---------------------------------------------------------------- constants
CHUNK_SIZES == <<4096, 2048, 1024>>
max_retries == 6
base_backoff == 1

\* ------------------------------------------------------------------- bounds
MaxWorkers == 2     \* capture threads that can be alive at the same time
MaxKeys == 2        \* key events delivered by the input source in one run
MaxChunks == 1      \* captured frames submitted in one run
MaxBytes == 3       \* PartSpec: length of the byte sequences given to frame()
MaxReads == 2       \* PartSpec: buffers the capture device delivers
MaxTicks == 1       \* PartSpec: milliseconds that pass
MaxThreshold == 2   \* TestSpec: the server's corruption threshold

VARIABLES
    \* fields of PTTClient
    running, stop_threads, ptt_active, toggle_mode,
    chunk_index, current_chunk, chunks_sent,
    stream,          \* 0 = None, else frames_per_buffer of the open stream
    ws,              \* "none" | "open"      (self.ws is None / a connection)
    control_ws,      \* "none" | "open"
    loop,            \* FALSE = None
    p_terminated,    \* self.p.terminate() was called
    \* locals and positions of the threads of control
    retries,         \* local of run()
    pc,              \* position of run() / one_session(): "start", "loop",
                     \* "connect", "active", "teardown", "close_data",
                     \* "close_stream", "join", "decide", "exit", "done"
    recv,            \* "idle" | "listening" | "done"   (recv_task)
    worker,          \* audio_thr of the current session: [pc, was_active]
    old,             \* bag of capture threads of earlier sessions still alive
    kb,              \* "off" | "on" | "exited"  (listener / toggle thread)
    finQ,            \* control_stop_and_clear() coroutines handed to the
                     \* event loop and not run yet
    ctl_log,         \* what the last of them that ran did on the session's
                     \* control channel: <<[cmd, sent]>>, one entry per send
                     \* attempted
    \* environment
    peer,            \* peer side of the data channel: "none","open","closed"
    keysLeft,
    \* history (observations, never read by the program)
    delays,          \* <<[attempt, delay]>> slept by run()
    sizes,           \* chunk size announced for each session started
    keylog,          \* push-to-talk key events since the session started
    activeAtStart,   \* ptt_active when the session became Active
    finReq,          \* finalize-now requests of this session: by the release
                     \* handler (key), by the session's capture thread (worker)
    rejected,        \* data_corruption received on this session
    lateFrame,       \* a frame was submitted after that rejection
    quit,            \* "no" | "requested" (quit key received) | "restarted"
                     \* (run() entered a new session although it was)
    mic,             \* "ok" | "failed" (open_stream raised in this session)
    evts,            \* what the capture threads and the key handlers did
                     \* since the session started, in order: deactivations
                     \* ("off") and what was handed to the event loop
                     \* ("audio", "silence", "finalize")
    \* the parts in detail (PartSpec)
    unit,            \* "run" (the whole client) | "listener" | "framing" |
                     \* "capture": the part that is running
    data,            \* the inbound message receiver() handled last
    emitted,         \* what it printed for it
    audio_bytes,     \* the argument of the last call of frame()
    framed,          \* its result: [raised, bytes]
    now,             \* time.time() in milliseconds
    thr,             \* the capture threads of the session, statement by
                     \* statement: [pc, was_active, audio_bytes, framed,
                     \* seq, n] with n the value of self.chunks_sent that
                     \* `self.chunks_sent += 1` has read
    captured,        \* buffers the device has delivered
    wire,            \* what was handed to the event loop for the data
                     \* channel, in order: [who, kind, bytes, seq] with seq
                     \* the number of the buffer a captured frame was made
                     \* of; and, between them, the deactivations (kind
                     \* "off", seq the buffers delivered by then)
    \* the rejection test (TestSpec)
    test,            \* RejectionTestClient: [pc, i, chunks_sent,
                     \* rejection_received, connection_closed, data_ws, queue,
                     \* task, success], with data_ws the state of the data
                     \* connection at the client ("none", "open", "closed"),
                     \* queue the messages received and not yet handled,
                     \* task the message handler ("none", "listening",
                     \* "done", "cancelled")
    srv              \* the server it runs against: [threshold, corrupted,
                     \* inbox, closed, action, code, out], with inbox the
                     \* chunks received and not yet verified and out the
                     \* frames on their way to the client

progVars == <<running, stop_threads, ptt_active, toggle_mode, chunk_index,
              current_chunk, chunks_sent, stream, ws, control_ws, loop,
              p_terminated>>
ctlVars == <<retries, pc, recv, worker, old, kb>>
envVars == <<peer, keysLeft>>
histVars == <<delays, sizes, keylog, activeAtStart, finReq, rejected,
              lateFrame, quit, evts>>
loopVars == <<finQ, ctl_log>>
testVars == <<test, srv>>
unitVars == <<unit, data, emitted, audio_bytes, framed, now, thr, captured,
              wire, testVars>>
vars == <<progVars, ctlVars, envVars, histVars, loopVars, mic, unitVars>>

NoFin == [key |-> 0, worker |-> 0]
Idle == [pc |-> "off", was_active |-> FALSE]
NoMsg == [form |-> "none", type |-> "absent", error |-> "absent"]
NoFrame == [raised |-> FALSE, bytes |-> <<>>]
NoThread == [pc |-> "off", was_active |-> FALSE, audio_bytes |-> <<>>,
             framed |-> <<>>, seq |-> 0, n |-> 0]
Threads == {"cur", "old"}

\* RejectionTestClient.__init__, and no server
NoTest == [pc |-> "start", i |-> 0, chunks_sent |-> 0,
           rejection_received |-> FALSE, connection_closed |-> FALSE,
           data_ws |-> "none", queue |-> <<>>, task |-> "none",
           success |-> "none"]
NoServer == [threshold |-> 0, corrupted |-> 0, inbox |-> 0, closed |-> FALSE,
             action |-> "absent", code |-> "ok", out |-> <<>>]

\* the parts in detail at rest
PartsIdle ==
    /\ data = NoMsg /\ emitted = "none"
    /\ audio_bytes = <<>> /\ framed = NoFrame /\ now = 0
    /\ thr = [t \in Threads |-> NoThread] /\ captured = 0 /\ wire = <<>>
    /\ test = NoTest /\ srv = NoServer

\* PTTClient.__init__ (toggle_mode is decided by the environment probe)
Init ==
    /\ running = FALSE /\ stop_threads = FALSE /\ ptt_active = FALSE
    /\ toggle_mode \in BOOLEAN
    /\ chunk_index = 0 /\ current_chunk = CHUNK_SIZES[1] /\ chunks_sent = 0
    /\ stream = 0 /\ ws = "none" /\ control_ws = "none" /\ loop = FALSE
    /\ p_terminated = FALSE
    /\ retries = 0 /\ pc = "start" /\ recv = "idle"
    /\ worker = Idle /\ old = EmptyBag /\ kb = "off"
    /\ peer = "none" /\ keysLeft = MaxKeys
    /\ delays = <<>> /\ sizes = <<>> /\ keylog = <<>>
    /\ activeAtStart = FALSE /\ finReq = NoFin /\ rejected = FALSE
    /\ lateFrame = FALSE /\ quit = "no" /\ evts = <<>>
    /\ finQ = 0 /\ ctl_log = <<>> /\ mic = "ok"
    /\ unit = "run" /\ PartsIdle

\* ------------------------------------------------------------- pure helpers
\* run(): the chunk index after a session ended
NextChunkIndex_Wrap(i) == IF i < Len(CHUNK_SIZES) - 1 THEN i + 1 ELSE 0
NextChunkIndex(i) == IF i < Len(CHUNK_SIZES) - 1 THEN i + 1 ELSE i

\* run(): backoff = base_backoff * (2 ** (retries - 1))
Backoff_FromRetries(r) == base_backoff * 2 ^ r
Backoff(r) == base_backoff * 2 ^ (r - 1)

\* disconnect_ws() / disconnect_control(): close() is awaited when a handle is
\* held; an exception of close() (err) is swallowed and the handle is None
\* afterwards.  The result is the handle left and whether the call raised.
disconnect_ws_NoCatch(h, err) ==
    IF h # "none" /\ err THEN [h |-> h, raised |-> TRUE]
    ELSE [h |-> "none", raised |-> FALSE]
disconnect_ws(h, err) == [h |-> "none", raised |-> FALSE]

disconnect_control_NoCatch(h, err) ==
    IF h # "none" /\ err THEN [h |-> h, raised |-> TRUE]
    ELSE [h |-> "none", raised |-> FALSE]
disconnect_control(h, err) == [h |-> "none", raised |-> FALSE]

\* close_stream(): stop_stream() and close() when a stream is held, their
\* exception (err) swallowed; self.stream is None afterwards
close_stream_NoCatch(st, err) ==
    IF st # 0 /\ err THEN [h |-> st, raised |-> TRUE]
    ELSE [h |-> 0, raised |-> FALSE]
close_stream(st, err) == [h |-> 0, raised |-> FALSE]

\* the positions at which a capture thread is inside a call that can block
\* (PyAudio open, stream.read); everywhere else it is a few instructions away
\* from its loop condition
Blocking == {"open", "read"}

\* the capture threads alive: audio_thr, and those an earlier join gave up on
Alive == (IF worker.pc = "off" THEN {} ELSE {[cur |-> TRUE, st |-> worker]})
         \cup {[cur |-> FALSE, st |-> r] : r \in BagToSet(old)}
NumAlive == (IF worker.pc = "off" THEN 0 ELSE 1) + BagCardinality(old)
One(r) == IF r.pc = "off" THEN EmptyBag ELSE SetToBag({r})
\* thread t moves to state r
Becomes(t, r) ==
    IF t.cur THEN worker' = r /\ UNCHANGED old
    ELSE UNCHANGED worker /\ old' = (old (-) SetToBag({t.st})) (+) One(r)

\* history: the push-to-talk key events of the session, at most two kept
\* (history is kept while one_session is in its polling loop only)
Many == <<"+">>
Logged(e) == IF pc # "active" THEN keylog
             ELSE IF keylog = Many \/ Len(keylog) >= 2 THEN Many
             ELSE Append(keylog, e)
Counted(f) == IF pc = "active" /\ loop THEN f ELSE finReq

\* history: one entry of evts; who is "key" (a key handler), "loop" (the
\* session's capture thread) or "old" (a capture thread of an earlier
\* session), n the number of samples of a frame
Ev(w, k, n) == [who |-> w, what |-> k, n |-> n]
Who(t) == IF t.cur THEN "loop" ELSE "old"
\* entries of the capture threads are kept from the start of a session to
\* the end of its teardown, those of the key handlers while one_session is
\* in its polling loop
SessionLive == {"active", "teardown", "close_data", "close_stream", "join"}
Noted(es) == IF pc \in SessionLive THEN evts \o es ELSE evts
NotedKey(es) == IF pc = "active" THEN evts \o es ELSE evts

\* ------------------------------------------------------ run / one_session
\* run(): self.start_hotkeys()
StartHotkeys ==
    /\ pc = "start"
    /\ kb' = "on"
    /\ pc' = "loop"
    /\ UNCHANGED <<progVars, retries, recv, worker, old, envVars, histVars>>
    /\ UNCHANGED <<loopVars, mic>>
    /\ UNCHANGED unitVars

\* run(): while retries <= max_retries: ... one_session() is entered
LoopEnter ==
    /\ pc = "loop"
    /\ finQ = 0
    /\ retries <= max_retries
    /\ pc' = "connect"
    /\ sizes' = Append(sizes, current_chunk)
    /\ quit' = IF quit = "requested" THEN "restarted" ELSE quit
    /\ UNCHANGED <<progVars, retries, recv, worker, old, kb, envVars, delays,
                   keylog, activeAtStart, finReq, rejected, lateFrame, evts>>
    /\ UNCHANGED <<loopVars, mic>>
    /\ UNCHANGED unitVars

\* run(): the while condition fails
LoopLeave ==
    /\ pc = "loop"
    /\ finQ = 0
    /\ ~(retries <= max_retries)
    /\ pc' = "exit"
    /\ UNCHANGED <<progVars, retries, recv, worker, old, kb, envVars, histVars>>
    /\ UNCHANGED <<loopVars, mic>>
    /\ UNCHANGED unitVars

\* one_session() / connect_ws(): websockets.connect(DATA_URL) raises; the
\* exception leaves one_session before its try block and is caught by run()
ConnectFail_RunningFirst ==
    /\ pc = "connect"
    /\ finQ = 0
    /\ loop' = TRUE
    /\ \E err \in BOOLEAN : ws' = disconnect_ws(ws, err).h
    /\ pc' = "decide"
    /\ quit' = "no"
    /\ running' = TRUE
    /\ UNCHANGED <<stop_threads, ptt_active, toggle_mode, chunk_index,
                   current_chunk, chunks_sent, stream, control_ws, p_terminated,
                   retries, recv, worker, old, kb, envVars, delays, sizes, keylog,
                   activeAtStart, finReq, rejected, lateFrame, evts>>
    /\ UNCHANGED <<loopVars, mic>>
    /\ UNCHANGED unitVars
ConnectFail ==
    /\ pc = "connect"
    /\ finQ = 0
    /\ loop' = TRUE
    /\ \E err \in BOOLEAN : ws' = disconnect_ws(ws, err).h
    /\ pc' = "decide"
    /\ quit' = "no"
    /\ UNCHANGED <<running, stop_threads, ptt_active, toggle_mode, chunk_index,
                   current_chunk, chunks_sent, stream, control_ws, p_terminated,
                   retries, recv, worker, old, kb, envVars, delays, sizes, keylog,
                   activeAtStart, finReq, rejected, lateFrame, evts>>
    /\ UNCHANGED <<loopVars, mic>>
    /\ UNCHANGED unitVars

\* one_session() up to audio_thr.start(): the data channel connects, the
\* control channel connects or not, running is set, listener and capture
\* thread are started
ConnectOK ==
    /\ pc = "connect"
    /\ finQ = 0
    /\ \E ctl \in BOOLEAN : control_ws' = IF ctl THEN "open" ELSE "none"
    /\ loop' = TRUE
    /\ ws' = "open"
    /\ peer' = "open"
    /\ running' = TRUE
    /\ recv' = "listening"
    /\ old' = old (+) One(worker)
    /\ worker' = [pc |-> "top", was_active |-> FALSE]
    /\ quit' = "no"
    /\ pc' = "active"
    /\ activeAtStart' = ptt_active
    /\ evts' = <<>>
    /\ UNCHANGED <<stop_threads, ptt_active, toggle_mode, chunk_index,
                   current_chunk, chunks_sent, stream, p_terminated, retries, kb,
                   keysLeft, delays, sizes, keylog, finReq, rejected, lateFrame>>
    /\ ctl_log' = <<>>
    /\ UNCHANGED finQ
    /\ mic' = "ok"
    /\ UNCHANGED unitVars

\* one_session(): while self.running: await asyncio.sleep(0.05) -- loop exit
SessionExit_Deactivate ==
    /\ pc = "active"
    /\ finQ = 0
    /\ ~running
    /\ pc' = "teardown"
    /\ ptt_active' = FALSE
    /\ keylog' = <<>>
    /\ activeAtStart' = FALSE
    /\ finReq' = NoFin
    /\ evts' = <<>>
    /\ UNCHANGED <<running, stop_threads, toggle_mode, chunk_index,
                   current_chunk, chunks_sent, stream, ws, control_ws, loop,
                   p_terminated, retries, recv, worker, old, kb, envVars,
                   delays, sizes, rejected, lateFrame, quit>>
    /\ ctl_log' = <<>>
    /\ UNCHANGED finQ
    /\ mic' = "ok"
    /\ UNCHANGED unitVars
SessionExit ==
    /\ pc = "active"
    /\ finQ = 0
    /\ ~running
    /\ pc' = "teardown"
    /\ keylog' = <<>>
    /\ activeAtStart' = FALSE
    /\ finReq' = NoFin
    /\ evts' = <<>>
    /\ UNCHANGED <<progVars, retries, recv, worker, old, kb, envVars, delays,
                   sizes, rejected, lateFrame, quit>>
    /\ ctl_log' = <<>>
    /\ UNCHANGED finQ
    /\ mic' = "ok"
    /\ UNCHANGED unitVars

\* one_session() finally: recv_task.cancel(), then disconnect_control().  An
\* exception leaving a step of the finally block leaves one_session and is
\* caught by run().
TeardownControl ==
    /\ pc = "teardown"
    /\ recv' = "done"
    /\ \E err \in BOOLEAN :
         LET r == disconnect_control(control_ws, err) IN
         /\ control_ws' = r.h
         /\ pc' = IF r.raised THEN "decide" ELSE "close_data"
    /\ UNCHANGED <<running, stop_threads, ptt_active, toggle_mode, chunk_index,
                   current_chunk, chunks_sent, stream, ws, loop, p_terminated,
                   retries, worker, old, kb, envVars, histVars>>
    /\ UNCHANGED <<loopVars, mic>>
    /\ UNCHANGED unitVars

\* one_session() finally: disconnect_ws()
TeardownData ==
    /\ pc = "close_data"
    /\ finQ = 0
    /\ \E err \in BOOLEAN :
         LET r == disconnect_ws(ws, err) IN
         /\ ws' = r.h
         /\ pc' = IF r.raised THEN "decide" ELSE "close_stream"
    /\ peer' = "closed"
    /\ rejected' = FALSE
    /\ lateFrame' = FALSE
    /\ UNCHANGED <<running, stop_threads, ptt_active, toggle_mode, chunk_index,
                   current_chunk, chunks_sent, stream, control_ws, loop,
                   p_terminated, retries, recv, worker, old, kb, keysLeft, delays,
                   sizes, keylog, activeAtStart, finReq, quit, evts>>
    /\ ctl_log' = <<>>
    /\ UNCHANGED <<finQ, mic>>
    /\ UNCHANGED unitVars

TeardownChannels == TeardownControl \/ TeardownData

\* one_session() finally: self.close_stream()
TeardownStream ==
    /\ pc = "close_stream"
    /\ \E err \in BOOLEAN :
         LET r == close_stream(stream, err) IN
         /\ stream' = r.h
         /\ pc' = IF r.raised THEN "decide" ELSE "join"
    /\ UNCHANGED <<running, stop_threads, ptt_active, toggle_mode, chunk_index,
                   current_chunk, chunks_sent, ws, control_ws, loop, p_terminated,
                   retries, recv, worker, old, kb, envVars, histVars>>
    /\ UNCHANGED <<loopVars, mic>>
    /\ UNCHANGED unitVars

\* one_session() finally: audio_thr.join(timeout=1.0) returns because the
\* thread ended or because the timeout expired (the thread stays alive then)
Join ==
    /\ pc = "join"
    /\ \/ worker.pc = "off"
       \/ worker.pc \in Blocking /\ NumAlive < MaxWorkers
    /\ pc' = "decide"
    /\ evts' = <<>>
    /\ UNCHANGED <<progVars, retries, recv, worker, old, kb, envVars, delays,
                   sizes, keylog, activeAtStart, finReq, rejected, lateFrame,
                   quit>>
    /\ UNCHANGED <<loopVars, mic>>
    /\ UNCHANGED unitVars

\* run(): retries += 1, chunk degradation, backoff, asyncio.sleep(backoff)
Reconnect_KeepAfterQuit ==
    /\ pc = "decide"
    /\ finQ = 0
    /\ retries' = retries + 1
    /\ chunk_index' = IF quit = "requested" THEN chunk_index
                      ELSE NextChunkIndex(chunk_index)
    /\ current_chunk' = CHUNK_SIZES[chunk_index' + 1]
    /\ delays' = Append(delays, [attempt |-> retries', delay |-> Backoff(retries')])
    /\ pc' = "loop"
    /\ UNCHANGED <<running, stop_threads, ptt_active, toggle_mode, chunks_sent,
                   stream, ws, control_ws, loop, p_terminated, recv, worker, old,
                   kb, envVars, sizes, keylog, activeAtStart, finReq, rejected,
                   lateFrame, quit, evts>>
    /\ UNCHANGED <<loopVars, mic>>
    /\ UNCHANGED unitVars
Reconnect_FreshAfterSuccess ==
    /\ pc = "decide"
    /\ finQ = 0
    /\ retries' = IF chunks_sent > 0 THEN 1 ELSE retries + 1
    /\ chunk_index' = IF chunks_sent > 0 THEN 0 ELSE NextChunkIndex(chunk_index)
    /\ current_chunk' = CHUNK_SIZES[chunk_index' + 1]
    /\ delays' = Append(delays, [attempt |-> retries', delay |-> Backoff(retries')])
    /\ pc' = "loop"
    /\ UNCHANGED <<running, stop_threads, ptt_active, toggle_mode, chunks_sent,
                   stream, ws, control_ws, loop, p_terminated, recv, worker, old,
                   kb, envVars, sizes, keylog, activeAtStart, finReq, rejected,
                   lateFrame, quit, evts>>
    /\ UNCHANGED <<loopVars, mic>>
    /\ UNCHANGED unitVars
Reconnect ==
    /\ pc = "decide"
    /\ finQ = 0
    /\ retries' = retries + 1
    /\ chunk_index' = NextChunkIndex(chunk_index)
    /\ current_chunk' = CHUNK_SIZES[chunk_index' + 1]
    /\ delays' = Append(delays, [attempt |-> retries', delay |-> Backoff(retries')])
    /\ pc' = "loop"
    /\ UNCHANGED <<running, stop_threads, ptt_active, toggle_mode, chunks_sent,
                   stream, ws, control_ws, loop, p_terminated, recv, worker, old,
                   kb, envVars, sizes, keylog, activeAtStart, finReq, rejected,
                   lateFrame, quit, evts>>
    /\ UNCHANGED <<loopVars, mic>>
    /\ UNCHANGED unitVars

\* run() after the loop: stop_threads = True, statistics, cleanup_audio()
Exit_NoStop ==
    /\ pc = "exit"
    /\ stream' = 0
    /\ p_terminated' = TRUE
    /\ pc' = "done"
    /\ UNCHANGED <<running, stop_threads, ptt_active, toggle_mode, chunk_index,
                   current_chunk, chunks_sent, ws, control_ws, loop, retries,
                   recv, worker, old, kb, envVars, histVars>>
    /\ UNCHANGED <<loopVars, mic>>
    /\ UNCHANGED unitVars
Exit ==
    /\ pc = "exit"
    /\ stop_threads' = TRUE
    /\ \E err \in BOOLEAN : stream' = close_stream(stream, err).h
    /\ p_terminated' = TRUE
    /\ pc' = "done"
    /\ UNCHANGED <<running, ptt_active, toggle_mode, chunk_index, current_chunk,
                   chunks_sent, ws, control_ws, loop, retries, recv, worker, old,
                   kb, envVars, histVars>>
    /\ UNCHANGED <<loopVars, mic>>
    /\ UNCHANGED unitVars

\* ------------------------------------------------------------ control calls
\* control_call(payload): nothing without a control channel; else one send,
\* whose failure (~ok) is swallowed
control_call_NoGuard(h, cmd, ok) == <<[cmd |-> cmd, sent |-> ok /\ h # "none"]>>
control_call(h, cmd, ok) ==
    IF h = "none" THEN <<>> ELSE <<[cmd |-> cmd, sent |-> ok]>>

\* control_stop_and_clear(): stop, then clear_audio_queue
control_stop_and_clear_Abort(h, ok1, ok2) ==
    IF h # "none" /\ ~ok1 THEN control_call(h, "stop", ok1)
    ELSE control_call(h, "stop", ok1) \o control_call(h, "clear_audio_queue", ok2)
control_stop_and_clear(h, ok1, ok2) ==
    control_call(h, "stop", ok1) \o control_call(h, "clear_audio_queue", ok2)

\* the positions of run() / one_session() at or next to an await, where the
\* event loop runs what other threads handed to it (close_stream, the
\* blocking join and the end of run() are synchronous).  What was handed
\* before the coroutine is resumed from an await runs first (the ready queue
\* is first in, first out): hence finQ = 0 in the steps that resume.
LoopFree == {"loop", "connect", "active", "teardown", "close_data", "decide"}

\* the event loop runs one control_stop_and_clear() handed to it by
\* run_coroutine_threadsafe
RunFinalize ==
    /\ finQ > 0
    /\ pc \in LoopFree
    /\ finQ' = finQ - 1
    /\ \E ok1, ok2 \in BOOLEAN :
         ctl_log' = control_stop_and_clear(control_ws, ok1, ok2)
    /\ UNCHANGED <<progVars, ctlVars, envVars, histVars, mic>>
    /\ UNCHANGED unitVars

\* ----------------------------------------------------------------- receiver
\* an inbound message as receiver() sees it: text that json.loads rejects
\* ("not_json"), a JSON value that is not an object ("non_object": a list, a
\* string, a number, null), or an object with its "type" and "error" members
\* ("absent" when the object has none, "other" for a value the code does not
\* name)
Silenced == {"realtime", "vad_detect_start", "vad_detect_stop",
             "transcription_start", "start_turn_detection",
             "stop_turn_detection", "wakeword_detected",
             "wakeword_detection_start", "wakeword_detection_end"}
Types == {"error", "fullSentence", "recording_start", "recording_stop"}
         \cup Silenced \cup {"other", "absent"}
Errors == {"data_corruption", "other", "absent"}
Msg(f, t, e) == [form |-> f, type |-> t, error |-> e]
Messages == {Msg("object", t, e) : t \in Types, e \in Errors}
            \cup {Msg("non_object", "absent", "absent"),
                  Msg("not_json", "absent", "absent")}
\* one message of each kind
MsgKinds == {Msg("object", "error", "data_corruption"),
             Msg("object", "error", "other"),
             Msg("object", "fullSentence", "absent"),
             Msg("object", "recording_start", "absent"),
             Msg("object", "recording_stop", "absent"),
             Msg("object", "realtime", "absent"),
             Msg("object", "other", "absent"),
             Msg("non_object", "absent", "absent"),
             Msg("not_json", "absent", "absent")}
IsCorruption(m) ==
    m.form = "object" /\ m.type = "error" /\ m.error = "data_corruption"

\* what receiver() does with one inbound message: "reject" ends the session
\* (running = False, break); "fail" too (data.get on a value that is not an
\* object raises AttributeError, which the last handler of receiver()
\* catches: running = False); "skip" goes on with the next message
OnMessage_Ignore(m) == "skip"
OnMessage_NoInnerCatch(m) ==
    IF m.form \in {"not_json", "non_object"} THEN "fail"
    ELSE IF IsCorruption(m) THEN "reject"
    ELSE "skip"
OnMessage(m) ==
    IF m.form = "not_json" THEN "skip"
    ELSE IF m.form = "non_object" THEN "fail"
    ELSE IF IsCorruption(m) THEN "reject"
    ELSE "skip"

\* what receiver() prints for it: the rejection, "Final", a recording
\* event, the message itself ("generic"), "Receiver error", or nothing
Printed(m) ==
    IF m.form = "not_json" THEN "none"
    ELSE IF m.form = "non_object" THEN "receiver_error"
    ELSE IF IsCorruption(m) THEN "rejected"
    ELSE IF m.type = "fullSentence" THEN "final"
    ELSE IF m.type \in {"recording_start", "recording_stop"} THEN "lifecycle"
    ELSE IF m.type \notin Silenced THEN "generic"
    ELSE "none"

\* how the async iteration over self.ws ends when the connection goes away:
\* a close with code 1000/1001 ends the iteration normally, any other close
\* raises ConnectionClosed, any other fault raises an Exception
CloseKinds == {"closed_ok", "closed_error", "fault"}
ClearsRunning(k) == k # "closed_ok"

\* receiver(): one message is received and classified
RecvMsg ==
    /\ pc = "active" /\ recv = "listening" /\ peer = "open"
    /\ \E m \in MsgKinds :
         /\ rejected' = (rejected \/ IsCorruption(m))
         /\ IF OnMessage(m) \in {"reject", "fail"}
            THEN running' = FALSE /\ recv' = "done"
            ELSE UNCHANGED <<running, recv>>
    /\ UNCHANGED <<stop_threads, ptt_active, toggle_mode, chunk_index,
                   current_chunk, chunks_sent, stream, ws, control_ws, loop,
                   p_terminated, retries, pc, worker, old, kb, peer, keysLeft,
                   delays, sizes, keylog, activeAtStart, finReq, lateFrame, quit,
                   evts>>
    /\ UNCHANGED <<loopVars, mic>>
    /\ UNCHANGED unitVars

\* receiver(): the peer closes the data connection or the transport breaks
PeerClose ==
    /\ pc = "active" /\ recv = "listening" /\ peer = "open"
    /\ peer' = "closed"
    /\ recv' = "done"
    /\ \E k \in CloseKinds : running' = IF ClearsRunning(k) THEN FALSE ELSE running
    /\ UNCHANGED <<stop_threads, ptt_active, toggle_mode, chunk_index,
                   current_chunk, chunks_sent, stream, ws, control_ws, loop,
                   p_terminated, retries, pc, worker, old, kb, keysLeft, histVars>>
    /\ UNCHANGED <<loopVars, mic>>
    /\ UNCHANGED unitVars

\* ------------------------------------------------------------ audio_worker
\* audio_worker(): the loop condition and the two tests of one cycle
WorkerBranch_NoEdge(was) ==
    IF stop_threads \/ ~running THEN "off"
    ELSE IF ~ptt_active THEN "tail"
    ELSE IF ~was THEN "open" ELSE "read"
WorkerBranch(was) ==
    IF stop_threads \/ ~running THEN "off"
    ELSE IF ~ptt_active THEN (IF was THEN "tail" ELSE "top")
    ELSE IF ~was THEN "open" ELSE "read"

W_Top(t) ==
    /\ t.st.pc = "top"
    /\ Becomes(t, [t.st EXCEPT !.pc = WorkerBranch(t.st.was_active)])
    /\ UNCHANGED <<progVars, retries, pc, recv, kb, envVars, histVars>>
    /\ UNCHANGED <<loopVars, mic>>
    /\ UNCHANGED unitVars

\* audio_worker(): the size in samples (dataLength = len // 2) of the frame
\* made of silent = b"\x00" * (self.current_chunk * 2)
SilentFrame_Bytes(c) == c * 2
SilentFrame(c) == (c * 2) \div 2

\* audio_worker(): what the tail action hands to the event loop, in program
\* order: two silent frames if self.ws, then control_stop_and_clear() if
\* self.loop
TailSequence_FinFirst(w, c, has_ws, has_loop) ==
    (IF has_loop THEN <<Ev(w, "finalize", 0)>> ELSE <<>>)
    \o (IF has_ws THEN <<Ev(w, "silence", SilentFrame(c)),
                         Ev(w, "silence", SilentFrame(c))>>
        ELSE <<>>)
TailSequence(w, c, has_ws, has_loop) ==
    (IF has_ws THEN <<Ev(w, "silence", SilentFrame(c)),
                      Ev(w, "silence", SilentFrame(c))>>
     ELSE <<>>)
    \o (IF has_loop THEN <<Ev(w, "finalize", 0)>> ELSE <<>>)

\* audio_worker(): just turned off -- two silent frames if self.ws, the
\* finalize-now request if self.loop, close_stream(), was_active = False
W_Tail_Direct(t) ==
    /\ t.st.pc = "tail"
    /\ evts' = Noted(TailSequence(Who(t), current_chunk, ws # "none", loop))
    /\ lateFrame' = (lateFrame \/ (ws # "none" /\ rejected))
    /\ finReq' = IF t.cur THEN Counted([finReq EXCEPT !.worker = @ + 1])
                 ELSE finReq
    /\ \E err \in BOOLEAN : stream' = close_stream(stream, err).h
    /\ Becomes(t, [pc |-> "top", was_active |-> FALSE])
    /\ UNCHANGED <<running, stop_threads, ptt_active, toggle_mode, chunk_index,
                   current_chunk, chunks_sent, ws, control_ws, loop, p_terminated,
                   retries, pc, recv, kb, envVars, delays, sizes, keylog,
                   activeAtStart, rejected, quit>>
    /\ UNCHANGED finQ
    /\ \E ok1, ok2 \in BOOLEAN :
         ctl_log' = control_stop_and_clear(control_ws, ok1, ok2)
    /\ UNCHANGED mic
    /\ UNCHANGED unitVars
W_Tail(t) ==
    /\ t.st.pc = "tail"
    /\ evts' = Noted(TailSequence(Who(t), current_chunk, ws # "none", loop))
    /\ lateFrame' = (lateFrame \/ (ws # "none" /\ rejected))
    /\ finReq' = IF t.cur THEN Counted([finReq EXCEPT !.worker = @ + 1])
                 ELSE finReq
    /\ \E err \in BOOLEAN : stream' = close_stream(stream, err).h
    /\ Becomes(t, [pc |-> "top", was_active |-> FALSE])
    /\ UNCHANGED <<running, stop_threads, ptt_active, toggle_mode, chunk_index,
                   current_chunk, chunks_sent, ws, control_ws, loop, p_terminated,
                   retries, pc, recv, kb, envVars, delays, sizes, keylog,
                   activeAtStart, rejected, quit>>
    /\ finQ' = IF loop THEN finQ + 1 ELSE finQ
    /\ UNCHANGED ctl_log
    /\ UNCHANGED mic
    /\ UNCHANGED unitVars

\* audio_worker(): open_stream() on the inactive-to-active transition; it
\* returns at once when a stream is held, and fails when the device cannot be
\* opened (always so once PyAudio was terminated)
W_Open_Continue(t) ==
    /\ t.st.pc = "open"
    /\ \E ok \in BOOLEAN :
         IF stream # 0 \/ (ok /\ ~p_terminated)
         THEN /\ stream' = IF stream # 0 THEN stream ELSE current_chunk
              /\ Becomes(t, [pc |-> "read", was_active |-> TRUE])
              /\ UNCHANGED mic
         ELSE /\ Becomes(t, [t.st EXCEPT !.pc = "top"])
              /\ mic' = IF pc = "active" THEN "failed" ELSE mic
              /\ UNCHANGED stream
    /\ UNCHANGED <<running, stop_threads, ptt_active, toggle_mode, chunk_index,
                   current_chunk, chunks_sent, ws, control_ws, loop, p_terminated,
                   retries, pc, recv, kb, envVars, histVars>>
    /\ UNCHANGED loopVars
    /\ UNCHANGED unitVars
W_Open(t) ==
    /\ t.st.pc = "open"
    /\ \E ok \in BOOLEAN :
         IF stream # 0 \/ (ok /\ ~p_terminated)
         THEN /\ stream' = IF stream # 0 THEN stream ELSE current_chunk
              /\ Becomes(t, [pc |-> "read", was_active |-> TRUE])
              /\ UNCHANGED mic
              /\ UNCHANGED running
         ELSE /\ running' = FALSE
              /\ Becomes(t, [t.st EXCEPT !.pc = "off"])
              /\ mic' = IF pc = "active" THEN "failed" ELSE mic
              /\ UNCHANGED stream
    /\ UNCHANGED <<stop_threads, ptt_active, toggle_mode, chunk_index,
                   current_chunk, chunks_sent, ws, control_ws, loop, p_terminated,
                   retries, pc, recv, kb, envVars, histVars>>
    /\ UNCHANGED loopVars
    /\ UNCHANGED unitVars

\* audio_worker(): one active cycle, lines 219-231.  self.stream.read(...)
\* blocks for one chunk; a read error, or self.stream being None by then, is
\* caught by the generic handler (pause, next cycle).  Otherwise frame(), and
\* if self.ws and self.running the frame is handed to the event loop and
\* chunks_sent is incremented.  self.ws.send(framed) only makes the coroutine:
\* it runs in the event loop, and what it raises (ConnectionClosed when the
\* connection is closed) stays in the future run_coroutine_threadsafe
\* returns, which is dropped.  No statement of the try block raises
\* ConnectionClosed, so lines 225-228 are never entered.
W_Read(t) ==
    /\ t.st.pc = "read"
    /\ \E ok \in BOOLEAN :
         IF stream # 0 /\ ok /\ chunks_sent < MaxChunks /\ ws # "none" /\ running
         THEN /\ chunks_sent' = chunks_sent + 1
              /\ lateFrame' = (lateFrame \/ rejected)
              /\ evts' = Noted(<<Ev(Who(t), "audio", current_chunk)>>)
         ELSE UNCHANGED <<chunks_sent, lateFrame, evts>>
    /\ Becomes(t, [t.st EXCEPT !.pc = "top"])
    /\ UNCHANGED <<running, stop_threads, ptt_active, toggle_mode, chunk_index,
                   current_chunk, stream, ws, control_ws, loop, p_terminated,
                   retries, pc, recv, kb, envVars, delays, sizes, keylog,
                   activeAtStart, finReq, rejected, quit>>
    /\ UNCHANGED <<loopVars, mic>>
    /\ UNCHANGED unitVars

\* ------------------------------------------------------------- input source
\* on_press(Key.space)
OnPressSpace ==
    /\ ~toggle_mode /\ kb = "on" /\ keysLeft > 0
    /\ keysLeft' = keysLeft - 1
    /\ ptt_active' = TRUE
    /\ keylog' = Logged("press")
    /\ UNCHANGED <<running, stop_threads, toggle_mode, chunk_index, current_chunk,
                   chunks_sent, stream, ws, control_ws, loop, p_terminated,
                   ctlVars, peer, delays, sizes, activeAtStart, finReq,
                   rejected, lateFrame, quit, evts>>
    /\ UNCHANGED <<loopVars, mic>>
    /\ UNCHANGED unitVars

\* on_release(Key.space)
OnReleaseSpace_Always ==
    /\ ~toggle_mode /\ kb = "on" /\ keysLeft > 0
    /\ keysLeft' = keysLeft - 1
    /\ ptt_active' = FALSE
    /\ finReq' = Counted([finReq EXCEPT !.key = @ + 1])
    /\ keylog' = Logged("release")
    /\ evts' = NotedKey(<<Ev("key", "off", 0)>>
                        \o (IF loop THEN <<Ev("key", "finalize", 0)>>
                            ELSE <<>>))
    /\ UNCHANGED <<running, stop_threads, toggle_mode, chunk_index, current_chunk,
                   chunks_sent, stream, ws, control_ws, loop, p_terminated,
                   ctlVars, peer, delays, sizes, activeAtStart,
                   rejected, lateFrame, quit>>
    /\ finQ' = IF loop THEN finQ + 1 ELSE finQ
    /\ UNCHANGED ctl_log
    /\ UNCHANGED mic
    /\ UNCHANGED unitVars
OnReleaseSpace ==
    /\ ~toggle_mode /\ kb = "on" /\ keysLeft > 0
    /\ keysLeft' = keysLeft - 1
    /\ ptt_active' = FALSE
    /\ finReq' = IF ptt_active THEN Counted([finReq EXCEPT !.key = @ + 1])
                 ELSE finReq
    /\ keylog' = Logged("release")
    /\ evts' = IF ptt_active
               THEN NotedKey(<<Ev("key", "off", 0)>>
                             \o (IF loop THEN <<Ev("key", "finalize", 0)>>
                                 ELSE <<>>))
               ELSE evts
    /\ UNCHANGED <<running, stop_threads, toggle_mode, chunk_index, current_chunk,
                   chunks_sent, stream, ws, control_ws, loop, p_terminated,
                   ctlVars, peer, delays, sizes, activeAtStart,
                   rejected, lateFrame, quit>>
    /\ finQ' = IF ptt_active /\ loop THEN finQ + 1 ELSE finQ
    /\ UNCHANGED ctl_log
    /\ UNCHANGED mic
    /\ UNCHANGED unitVars

\* on_press('q' / 'Q')
OnPressQuit ==
    /\ ~toggle_mode /\ kb = "on" /\ keysLeft > 0
    /\ keysLeft' = keysLeft - 1
    /\ running' = FALSE
    /\ quit' = "requested"
    /\ UNCHANGED <<stop_threads, ptt_active, toggle_mode, chunk_index,
                   current_chunk, chunks_sent, stream, ws, control_ws, loop,
                   p_terminated, ctlVars, peer, delays, sizes, keylog,
                   activeAtStart, finReq, rejected, lateFrame, evts>>
    /\ UNCHANGED <<loopVars, mic>>
    /\ UNCHANGED unitVars

\* toggle_stdin_loop(): self.ptt_active = not self.ptt_active
Flip_On(a) == TRUE
Flip(a) == ~a

\* toggle_stdin_loop(): ch == ' '
ToggleSpace ==
    /\ toggle_mode /\ kb = "on" /\ ~stop_threads /\ keysLeft > 0
    /\ keysLeft' = keysLeft - 1
    /\ ptt_active' = Flip(ptt_active)
    /\ keylog' = Logged("toggle")
    /\ evts' = IF ptt_active THEN NotedKey(<<Ev("key", "off", 0)>>) ELSE evts
    /\ UNCHANGED <<running, stop_threads, toggle_mode, chunk_index, current_chunk,
                   chunks_sent, stream, ws, control_ws, loop, p_terminated,
                   ctlVars, peer, delays, sizes, activeAtStart, finReq,
                   rejected, lateFrame, quit>>
    /\ UNCHANGED <<loopVars, mic>>
    /\ UNCHANGED unitVars

\* toggle_stdin_loop(): ch == 'q' -- running = False, break
ToggleQuit ==
    /\ toggle_mode /\ kb = "on" /\ ~stop_threads /\ keysLeft > 0
    /\ keysLeft' = keysLeft - 1
    /\ running' = FALSE
    /\ kb' = "exited"
    /\ quit' = "requested"
    /\ UNCHANGED <<stop_threads, ptt_active, toggle_mode, chunk_index,
                   current_chunk, chunks_sent, stream, ws, control_ws, loop,
                   p_terminated, retries, pc, recv, worker, old, peer,
                   delays, sizes, keylog, activeAtStart, finReq, rejected,
                   lateFrame, evts>>
    /\ UNCHANGED <<loopVars, mic>>
    /\ UNCHANGED unitVars

\* toggle_stdin_loop(): while not self.stop_threads -- the loop ends
ToggleLoopEnd ==
    /\ toggle_mode /\ kb = "on" /\ stop_threads
    /\ kb' = "exited"
    /\ UNCHANGED <<progVars, retries, pc, recv, worker, old, envVars, histVars>>
    /\ UNCHANGED <<loopVars, mic>>
    /\ UNCHANGED unitVars

\* ------------------------------------------------------------------ framing
\* Bytes are 0..255; text is the sequence of its ASCII codes.  A value below
\* 2^32 is kept as its two 16-bit halves [hi, lo], so that no intermediate
\* result leaves the range of the integers at hand.
SAMPLE_RATE == 16000
Bytes == {0, 127, 128, 255}
ByteSeqs(n) == UNION {[1..k -> Bytes] : k \in 0..n}

Wide(n) == [hi |-> n \div 65536, lo |-> n % 65536]
\* x & 0xFFFFFFFF for a Python int x of either sign
Mask32(x) == [hi |-> (x \div 65536) % 65536, lo |-> x % 65536]

\* np.frombuffer(audio_bytes, dtype=np.int16): the samples, two bytes each,
\* the low byte first (np.int16 has the byte order of the host, which is
\* little-endian on the hosts this client runs on); a buffer that is not a
\* whole number of samples is refused with a ValueError
Int16_Unsigned(lo, hi) == lo + 256 * hi
Int16(lo, hi) == ((lo + 256 * hi + 32768) % 65536) - 32768
frombuffer(a) == [i \in 1..(Len(a) \div 2) |-> Int16(a[2 * i - 1], a[2 * i])]
RECURSIVE np_sum(_)
np_sum(arr) == IF arr = <<>> THEN 0 ELSE Head(arr) + np_sum(Tail(arr))

\* checksum_int16(audio_bytes), for a whole number of samples
checksum_int16(a) == Mask32(np_sum(frombuffer(a)))

\* json.dumps of an int: its decimal digits
RECURSIVE Digits(_)
Digits(v) ==
    IF v.hi = 0 /\ v.lo < 10 THEN <<48 + v.lo>>
    ELSE LET x == (v.hi % 10) * 65536 + v.lo
         IN  Digits([hi |-> v.hi \div 10, lo |-> x \div 10]) \o <<48 + (x % 10)>>

\* "sampleRate"
K_sampleRate == <<34, 115, 97, 109, 112, 108, 101, 82, 97, 116, 101, 34>>
\* "dataLength"
K_dataLength == <<34, 100, 97, 116, 97, 76, 101, 110, 103, 116, 104, 34>>
\* "checksum"
K_checksum == <<34, 99, 104, 101, 99, 107, 115, 117, 109, 34>>
\* "timestamp"
K_timestamp == <<34, 116, 105, 109, 101, 115, 116, 97, 109, 112, 34>>
\* "server_sent_to_stt"
K_server_sent_to_stt == <<34, 115, 101, 114, 118, 101, 114, 95, 115, 101,
    110, 116, 95, 116, 111, 95, 115, 116, 116, 34>>
\* true
J_true == <<116, 114, 117, 101>>
\* the separators of json.dumps: ", " between members, ": " after a key
J_comma == <<44, 32>>
J_colon == <<58, 32>>

\* json.dumps(meta).encode("utf-8") of a dict given as its members in order,
\* each <<key, value>> already as text
RECURSIVE JoinMembers(_)
JoinMembers(ms) ==
    IF ms = <<>> THEN <<>>
    ELSE Head(ms)[1] \o J_colon \o Head(ms)[2]
         \o (IF Len(ms) > 1 THEN J_comma ELSE <<>>) \o JoinMembers(Tail(ms))
json_dumps(ms) == <<123>> \o JoinMembers(ms) \o <<125>>

\* struct.pack("<I", n)
pack_I_Big(n) == <<(n \div 16777216) % 256, (n \div 65536) % 256,
                  (n \div 256) % 256, n % 256>>
pack_I(n) == <<n % 256, (n \div 256) % 256, (n \div 65536) % 256,
              (n \div 16777216) % 256>>

\* frame(audio_bytes) at time t (int(time.time() * 1000)): the metadata, its
\* length in four bytes, the audio.  checksum_int16 raises when the audio is
\* not a whole number of samples, and so does frame().
frame_NoPrefixOfMeta(a, t) ==
    IF Len(a) % 2 # 0 THEN [raised |-> TRUE, bytes |-> <<>>]
    ELSE LET meta_json == json_dumps(<<
                 <<K_sampleRate, Digits(Wide(SAMPLE_RATE))>>,
                 <<K_dataLength, Digits(Wide(Len(a) \div 2))>>,
                 <<K_checksum, Digits(checksum_int16(a))>>,
                 <<K_timestamp, Digits(Wide(t))>>,
                 <<K_server_sent_to_stt, J_true>> >>)
         IN  [raised |-> FALSE,
              bytes |-> pack_I(Len(meta_json) + Len(a)) \o meta_json \o a]
frame_Truncate(a, t) ==
    LET whole == SubSeq(a, 1, 2 * (Len(a) \div 2))
        meta_json == json_dumps(<<
            <<K_sampleRate, Digits(Wide(SAMPLE_RATE))>>,
            <<K_dataLength, Digits(Wide(Len(a) \div 2))>>,
            <<K_checksum, Digits(checksum_int16(whole))>>,
            <<K_timestamp, Digits(Wide(t))>>,
            <<K_server_sent_to_stt, J_true>> >>)
    IN  [raised |-> FALSE, bytes |-> pack_I(Len(meta_json)) \o meta_json \o a]
frame(a, t) ==
    IF Len(a) % 2 # 0 THEN [raised |-> TRUE, bytes |-> <<>>]
    ELSE LET meta_json == json_dumps(<<
                 <<K_sampleRate, Digits(Wide(SAMPLE_RATE))>>,
                 <<K_dataLength, Digits(Wide(Len(a) \div 2))>>,
                 <<K_checksum, Digits(checksum_int16(a))>>,
                 <<K_timestamp, Digits(Wide(t))>>,
                 <<K_server_sent_to_stt, J_true>> >>)
         IN  [raised |-> FALSE,
              bytes |-> pack_I(Len(meta_json)) \o meta_json \o a]

\* ------------------------------------------------------ the parts in detail
\* An Active session of the client: the data channel is connected, the
\* listener listens, nothing was sent yet.
ActiveSession ==
    /\ running = TRUE /\ stop_threads = FALSE /\ toggle_mode = FALSE
    /\ chunk_index = 0 /\ chunks_sent = 0
    /\ stream = 0 /\ ws = "open" /\ control_ws = "open" /\ loop = TRUE
    /\ p_terminated = FALSE
    /\ retries = 0 /\ pc = "active" /\ recv = "listening"
    /\ worker = [pc |-> "top", was_active |-> FALSE] /\ old = EmptyBag
    /\ kb = "on" /\ peer = "open"
    /\ delays = <<>> /\ sizes = <<CHUNK_SIZES[1]>> /\ keylog = <<>>
    /\ activeAtStart = FALSE /\ finReq = NoFin /\ rejected = FALSE
    /\ lateFrame = FALSE /\ quit = "no" /\ evts = <<>>
    /\ finQ = 0 /\ ctl_log = <<>> /\ mic = "ok"

\* receiver(): one message is received, classified and printed
L_Receive ==
    /\ unit = "listener" /\ recv = "listening"
    /\ \E m \in Messages :
         /\ data' = m
         /\ emitted' = Printed(m)
         /\ IF OnMessage(m) \in {"reject", "fail"}
            THEN running' = FALSE /\ recv' = "done"
            ELSE UNCHANGED <<running, recv>>
    /\ UNCHANGED <<stop_threads, ptt_active, toggle_mode, chunk_index,
                   current_chunk, chunks_sent, stream, ws, control_ws, loop,
                   p_terminated, retries, pc, worker, old, kb, envVars,
                   histVars, loopVars, mic>>
    /\ UNCHANGED <<unit, audio_bytes, framed, now, thr, captured, wire>>
    /\ UNCHANGED testVars

\* time passes (time.time() is taken not to be set back)
Tick ==
    /\ unit \in {"framing", "capture"}
    /\ now < MaxTicks
    /\ now' = now + 1
    /\ UNCHANGED <<progVars, ctlVars, envVars, histVars, loopVars, mic>>
    /\ UNCHANGED <<unit, data, emitted, audio_bytes, framed, thr, captured,
                   wire>>
    /\ UNCHANGED testVars

\* frame(audio_bytes) is called
F_Frame ==
    /\ unit = "framing"
    /\ framed' = frame(audio_bytes, now)
    /\ UNCHANGED <<progVars, ctlVars, envVars, histVars, loopVars, mic>>
    /\ UNCHANGED <<unit, data, emitted, audio_bytes, now, thr, captured, wire>>
    /\ UNCHANGED testVars

\* audio_worker() statement by statement, for the capture threads that can
\* be alive in an Active session: "cur", the thread one_session started, and
\* "old", a thread of an earlier session that join(timeout=1.0) left behind.
\* They share every field of the client, the stream included.
Heard == {0, 255}
\* what self.stream.read(c) can return: c samples, or a buffer cut short
DeviceBuffers(c) == [1..(2 * c) -> Heard] \cup [1..(2 * c - 1) -> Heard]
Zeros(n) == [i \in 1..n |-> 0]
Sent(t, k, b, n) == [who |-> t, kind |-> k, bytes |-> b, seq |-> n]
Moves(t, r) == thr' = [thr EXCEPT ![t] = r]

\* the loop condition and the tests of one cycle
C_Top(t) ==
    /\ unit = "capture" /\ thr[t].pc = "top"
    /\ Moves(t, [thr[t] EXCEPT !.pc = WorkerBranch(thr[t].was_active)])
    /\ UNCHANGED <<progVars, ctlVars, envVars, histVars, loopVars, mic>>
    /\ UNCHANGED <<unit, data, emitted, audio_bytes, framed, now, captured,
                   wire>>
    /\ UNCHANGED testVars

\* lines 190-206: two frames of silence if self.ws, the finalize-now request
\* if self.loop, close_stream(), was_active = False
C_Tail(t) ==
    /\ unit = "capture" /\ thr[t].pc = "tail"
    /\ LET silent == Zeros(current_chunk * 2)
           f == frame(silent, now)
       IN  wire' = IF ws # "none" /\ ~f.raised
                   THEN wire \o <<Sent(t, "silence", f.bytes, 0),
                                  Sent(t, "silence", f.bytes, 0)>>
                   ELSE wire
    /\ finQ' = IF loop THEN finQ + 1 ELSE finQ
    /\ \E err \in BOOLEAN : stream' = close_stream(stream, err).h
    /\ Moves(t, [thr[t] EXCEPT !.pc = "top", !.was_active = FALSE])
    /\ UNCHANGED <<running, stop_threads, ptt_active, toggle_mode, chunk_index,
                   current_chunk, chunks_sent, ws, control_ws, loop,
                   p_terminated, ctlVars, envVars, histVars, ctl_log, mic>>
    /\ UNCHANGED <<unit, data, emitted, audio_bytes, framed, now, captured>>
    /\ UNCHANGED testVars

\* lines 210-217: open_stream()
C_Open(t) ==
    /\ unit = "capture" /\ thr[t].pc = "open"
    /\ \E ok \in BOOLEAN :
         IF stream # 0 \/ (ok /\ ~p_terminated)
         THEN /\ stream' = IF stream # 0 THEN stream ELSE current_chunk
              /\ Moves(t, [thr[t] EXCEPT !.pc = "read", !.was_active = TRUE])
              /\ UNCHANGED running
         ELSE /\ running' = FALSE
              /\ Moves(t, [thr[t] EXCEPT !.pc = "off"])
              /\ UNCHANGED stream
    /\ UNCHANGED <<stop_threads, ptt_active, toggle_mode, chunk_index,
                   current_chunk, chunks_sent, ws, control_ws, loop,
                   p_terminated, ctlVars, envVars, histVars, loopVars, mic>>
    /\ UNCHANGED <<unit, data, emitted, audio_bytes, framed, now, captured,
                   wire>>
    /\ UNCHANGED testVars

\* line 220: self.stream.read(self.current_chunk) returns the next buffer of
\* the device, or raises (also when self.stream is None by now), which the
\* generic handler of lines 229-231 catches
C_Read(t) ==
    /\ unit = "capture" /\ thr[t].pc = "read"
    /\ \/ /\ stream # 0 /\ captured < MaxReads
          /\ captured' = captured + 1
          /\ \E b \in DeviceBuffers(current_chunk) :
               Moves(t, [thr[t] EXCEPT !.pc = "frame", !.audio_bytes = b,
                                       !.seq = captured'])
       \/ /\ Moves(t, [thr[t] EXCEPT !.pc = "top"])
          /\ UNCHANGED captured
    /\ UNCHANGED <<progVars, ctlVars, envVars, histVars, loopVars, mic>>
    /\ UNCHANGED <<unit, data, emitted, audio_bytes, framed, now, wire>>
    /\ UNCHANGED testVars

\* line 221: framed = self.frame(audio_bytes); what frame() raises is caught
\* by the generic handler too, and the cycle ends there
C_Frame(t) ==
    /\ unit = "capture" /\ thr[t].pc = "frame"
    /\ LET f == frame(thr[t].audio_bytes, now) IN
         IF f.raised
         THEN Moves(t, [thr[t] EXCEPT !.pc = "top", !.audio_bytes = <<>>,
                                      !.seq = 0])
         ELSE Moves(t, [thr[t] EXCEPT !.pc = "send", !.audio_bytes = <<>>,
                                      !.framed = f.bytes])
    /\ UNCHANGED <<progVars, ctlVars, envVars, histVars, loopVars, mic>>
    /\ UNCHANGED <<unit, data, emitted, audio_bytes, framed, now, captured,
                   wire>>
    /\ UNCHANGED testVars

\* lines 222-223: if self.ws and self.running the frame is handed to the
\* event loop; line 224 then reads self.chunks_sent
C_Send(t) ==
    /\ unit = "capture" /\ thr[t].pc = "send"
    /\ IF ws # "none" /\ running
       THEN /\ wire' = Append(wire, Sent(t, "audio", thr[t].framed,
                                          thr[t].seq))
            /\ Moves(t, [thr[t] EXCEPT !.pc = "count", !.framed = <<>>,
                                       !.seq = 0, !.n = chunks_sent])
       ELSE /\ UNCHANGED wire
            /\ Moves(t, [thr[t] EXCEPT !.pc = "top", !.framed = <<>>,
                                       !.seq = 0])
    /\ UNCHANGED <<progVars, ctlVars, envVars, histVars, loopVars, mic>>
    /\ UNCHANGED <<unit, data, emitted, audio_bytes, framed, now, captured>>
    /\ UNCHANGED testVars

\* line 224: self.chunks_sent += 1 stores the value read plus one; the
\* statement is not atomic, and the capture threads share the field
C_Count(t) ==
    /\ unit = "capture" /\ thr[t].pc = "count"
    /\ chunks_sent' = thr[t].n + 1
    /\ Moves(t, [thr[t] EXCEPT !.pc = "top", !.n = 0])
    /\ UNCHANGED <<running, stop_threads, ptt_active, toggle_mode, chunk_index,
                   current_chunk, stream, ws, control_ws, loop, p_terminated,
                   ctlVars, envVars, histVars, loopVars, mic>>
    /\ UNCHANGED <<unit, data, emitted, audio_bytes, framed, now, captured,
                   wire>>
    /\ UNCHANGED testVars

\* an input handler sets or clears ptt_active
C_Key ==
    /\ unit = "capture" /\ keysLeft > 0
    /\ keysLeft' = keysLeft - 1
    /\ ptt_active' = ~ptt_active
    /\ wire' = IF ptt_active THEN Append(wire, Sent("key", "off", <<>>, captured))
               ELSE wire
    /\ UNCHANGED <<running, stop_threads, toggle_mode, chunk_index,
                   current_chunk, chunks_sent, stream, ws, control_ws, loop,
                   p_terminated, ctlVars, peer, histVars, loopVars, mic>>
    /\ UNCHANGED <<unit, data, emitted, audio_bytes, framed, now, thr, captured>>
    /\ UNCHANGED testVars

\* ------------------------------------------------------------ specification
RunStep ==
    \/ RunFinalize
    \/ StartHotkeys \/ LoopEnter \/ LoopLeave \/ ConnectFail \/ ConnectOK
    \/ SessionExit \/ TeardownChannels \/ TeardownStream \/ Join
    \/ Reconnect \/ Exit

WorkerStep(t) == W_Top(t) \/ W_Tail(t) \/ W_Open(t) \/ W_Read(t)

Next ==
    \/ StartHotkeys \/ LoopEnter \/ LoopLeave \/ ConnectFail \/ ConnectOK
    \/ SessionExit \/ TeardownControl \/ TeardownData \/ TeardownStream
    \/ Join \/ Reconnect \/ Exit
    \/ RunFinalize
    \/ RecvMsg \/ PeerClose
    \/ \E t \in Alive : W_Top(t)
    \/ \E t \in Alive : W_Tail(t)
    \/ \E t \in Alive : W_Open(t)
    \/ \E t \in Alive : W_Read(t)
    \/ OnPressSpace \/ OnReleaseSpace \/ OnPressQuit
    \/ ToggleSpace \/ ToggleQuit \/ ToggleLoopEnd

Spec == Init /\ [][Next]_vars
\* the event loop, a capture thread and the input thread each keep running
\* while they have a step to take
FairSpec ==
    /\ Spec
    /\ WF_vars(RunStep)
    /\ WF_vars(\E t \in Alive : t.cur /\ WorkerStep(t))
    /\ WF_vars(\E t \in Alive : ~t.cur /\ WorkerStep(t))

\* the parts in detail: the listener, frame() on every byte sequence up to
\* MaxBytes, the capture threads of one Active session
PartInit ==
    /\ ActiveSession
    /\ current_chunk = 1
    /\ \/ unit = "listener" /\ ptt_active = FALSE /\ keysLeft = 0 /\ PartsIdle
       \/ /\ unit = "framing" /\ ptt_active = FALSE /\ keysLeft = 0
          /\ audio_bytes \in ByteSeqs(MaxBytes)
          /\ data = NoMsg /\ emitted = "none" /\ framed = NoFrame /\ now = 0
          /\ thr = [t \in Threads |-> NoThread] /\ captured = 0 /\ wire = <<>>
          /\ test = NoTest /\ srv = NoServer
       \/ /\ unit = "capture" /\ ptt_active \in BOOLEAN /\ keysLeft = 1
          /\ data = NoMsg /\ emitted = "none"
          /\ audio_bytes = <<>> /\ framed = NoFrame /\ now = 0
          /\ \E o \in {"off", "top"}, w \in BOOLEAN :
               /\ o = "off" => ~w
               /\ thr = [t \in Threads |->
                           IF t = "cur" THEN [NoThread EXCEPT !.pc = "top"]
                           ELSE [NoThread EXCEPT !.pc = o, !.was_active = w]]
          /\ captured = 0 /\ wire = <<>>
          /\ test = NoTest /\ srv = NoServer

PartNext ==
    \/ L_Receive
    \/ Tick
    \/ F_Frame
    \/ \E t \in Threads : C_Top(t)
    \/ \E t \in Threads : C_Tail(t)
    \/ \E t \in Threads : C_Open(t)
    \/ \E t \in Threads : C_Read(t)
    \/ \E t \in Threads : C_Frame(t)
    \/ \E t \in Threads : C_Send(t)
    \/ \E t \in Threads : C_Count(t)
    \/ C_Key

PartSpec == PartInit /\ [][PartNext]_vars
\* ------------------------------------------------------ the rejection test
\* tests/test_rejection_system.py against a server started with
\* --verify-data-integrity --reject-corrupted-data --corruption-threshold T.
\* Everything runs on one event loop: the test and its message handler
\* interleave where the test awaits.
Rest == <<progVars, ctlVars, envVars, histVars, loopVars, mic, unit, data,
          emitted, audio_bytes, framed, now, thr, captured, wire>>

\* send_corrupted_chunk(): nothing without a connection; send() raises
\* ConnectionClosed on a connection that is closed, which sets
\* connection_closed; else the chunk is sent and then counted
send_corrupted_chunk_CountFirst(c) ==
    IF c.data_ws = "none" THEN [c |-> c, sent |-> FALSE]
    ELSE IF c.data_ws = "closed"
    THEN [c |-> [c EXCEPT !.connection_closed = TRUE, !.chunks_sent = @ + 1],
          sent |-> FALSE]
    ELSE [c |-> [c EXCEPT !.chunks_sent = @ + 1], sent |-> TRUE]
send_corrupted_chunk(c) ==
    IF c.data_ws = "none" THEN [c |-> c, sent |-> FALSE]
    ELSE IF c.data_ws = "closed"
    THEN [c |-> [c EXCEPT !.connection_closed = TRUE], sent |-> FALSE]
    ELSE [c |-> [c EXCEPT !.chunks_sent = @ + 1], sent |-> TRUE]

\* the server verifies one chunk whose checksum is wrong: it counts it; once
\* it has counted more than threshold of them it sends the data_corruption
\* error and closes the connection; below that it may send a message of
\* another kind (warn)
Verify(v, warn) ==
    IF v.closed THEN [v EXCEPT !.inbox = @ - 1]
    ELSE IF v.corrupted + 1 > v.threshold
    THEN [v EXCEPT !.inbox = @ - 1, !.corrupted = @ + 1, !.closed = TRUE,
                   !.out = @ \o <<"rejection", "close">>]
    ELSE [v EXCEPT !.inbox = @ - 1, !.corrupted = @ + 1,
                   !.out = IF warn THEN Append(@, "other") ELSE @]

\* what asyncio.sleep(0.5), sleep(2) and sleep(1) wait for: the server has
\* verified what was sent, its answer has arrived and the handler has handled
\* it
Quiet ==
    /\ srv.inbox = 0 /\ srv.out = <<>>
    /\ test.task = "listening" => (test.queue = <<>> /\ test.data_ws # "closed")

\* connect(): both connections open and the handler is started, or the test
\* returns False
T_Connect ==
    /\ unit = "test" /\ test.pc = "start"
    /\ \E ok \in BOOLEAN :
         test' = IF ok THEN [test EXCEPT !.pc = "loop", !.data_ws = "open",
                                         !.task = "listening"]
                 ELSE [test EXCEPT !.pc = "refused", !.success = "fail"]
    /\ UNCHANGED <<Rest, srv>>

\* lines 186-192: one iteration up to the send
T_Iterate ==
    /\ unit = "test" /\ test.pc = "loop"
    /\ IF \/ test.i >= srv.threshold + 5
          \/ test.connection_closed \/ test.rejection_received
       THEN test' = [test EXCEPT !.pc = "wait"] /\ UNCHANGED srv
       ELSE LET r == send_corrupted_chunk(test) IN
            /\ test' = [r.c EXCEPT !.pc = IF r.sent THEN "sleep" ELSE "wait"]
            /\ srv' = IF r.sent THEN [srv EXCEPT !.inbox = @ + 1] ELSE srv
    /\ UNCHANGED Rest

\* line 194: await asyncio.sleep(0.5)
T_Sleep ==
    /\ unit = "test" /\ test.pc = "sleep" /\ Quiet
    /\ test' = [test EXCEPT !.pc = "loop", !.i = @ + 1]
    /\ UNCHANGED <<Rest, srv>>

\* lines 197-198: if not self.connection_closed: await asyncio.sleep(2)
T_Wait ==
    /\ unit = "test" /\ test.pc = "wait"
    /\ test.connection_closed \/ Quiet
    /\ test' = [test EXCEPT !.pc = "extra"]
    /\ UNCHANGED <<Rest, srv>>

\* lines 201-203: one more chunk, to confirm the disconnection
T_Extra ==
    /\ unit = "test" /\ test.pc = "extra"
    /\ IF test.connection_closed
       THEN test' = [test EXCEPT !.pc = "finally"] /\ UNCHANGED srv
       ELSE LET r == send_corrupted_chunk(test) IN
            /\ test' = [r.c EXCEPT !.pc = "rest"]
            /\ srv' = IF r.sent THEN [srv EXCEPT !.inbox = @ + 1] ELSE srv
    /\ UNCHANGED Rest

\* line 204: await asyncio.sleep(1)
T_Rest ==
    /\ unit = "test" /\ test.pc = "rest" /\ Quiet
    /\ test' = [test EXCEPT !.pc = "finally"]
    /\ UNCHANGED <<Rest, srv>>

\* lines 209-214: data_task.cancel(), both connections are closed
T_Finally ==
    /\ unit = "test" /\ test.pc = "finally"
    /\ test' = [test EXCEPT !.pc = "report", !.data_ws = "closed",
                            !.task = IF @ = "listening" THEN "cancelled" ELSE @]
    /\ UNCHANGED <<Rest, srv>>

\* lines 222-232: success
T_Report ==
    /\ unit = "test" /\ test.pc = "report"
    /\ test' = [test EXCEPT
                  !.pc = "done",
                  !.success =
                      IF /\ test.chunks_sent <= srv.threshold + 1
                         /\ test.rejection_received \/ test.connection_closed
                      THEN "pass" ELSE "fail"]
    /\ UNCHANGED <<Rest, srv>>

\* handle_data_messages(): one message
H_Message ==
    /\ unit = "test" /\ test.task = "listening" /\ test.queue # <<>>
    /\ test' = IF Head(test.queue) = "rejection"
               THEN [test EXCEPT !.queue = Tail(@),
                                 !.rejection_received = TRUE,
                                 !.task = IF srv.action = "disconnect"
                                          THEN "done" ELSE @]
               ELSE [test EXCEPT !.queue = Tail(@)]
    /\ UNCHANGED <<Rest, srv>>

\* handle_data_messages(): the iteration over a closed connection ends, with
\* ConnectionClosed unless the close was a normal one
H_Closed ==
    /\ unit = "test" /\ test.task = "listening" /\ test.queue = <<>>
    /\ test.data_ws = "closed"
    /\ test' = [test EXCEPT !.task = "done",
                            !.connection_closed = (@ \/ srv.code = "error")]
    /\ UNCHANGED <<Rest, srv>>

\* the server verifies a chunk it received
S_Verify ==
    /\ unit = "test" /\ srv.inbox > 0
    /\ \E warn \in BOOLEAN : srv' = Verify(srv, warn)
    /\ UNCHANGED <<Rest, test>>

\* a frame of the server reaches the client: a message is queued for the
\* handler, the close closes the connection
N_Deliver ==
    /\ unit = "test" /\ srv.out # <<>>
    /\ srv' = [srv EXCEPT !.out = Tail(@)]
    /\ test' = IF test.data_ws # "open" THEN test
               ELSE IF Head(srv.out) = "close"
               THEN [test EXCEPT !.data_ws = "closed"]
               ELSE [test EXCEPT !.queue = Append(@, Head(srv.out))]
    /\ UNCHANGED Rest

TestInit ==
    /\ running = FALSE /\ stop_threads = FALSE /\ ptt_active = FALSE
    /\ toggle_mode = FALSE
    /\ chunk_index = 0 /\ current_chunk = CHUNK_SIZES[1] /\ chunks_sent = 0
    /\ stream = 0 /\ ws = "none" /\ control_ws = "none" /\ loop = FALSE
    /\ p_terminated = FALSE
    /\ retries = 0 /\ pc = "start" /\ recv = "idle"
    /\ worker = Idle /\ old = EmptyBag /\ kb = "off"
    /\ peer = "none" /\ keysLeft = 0
    /\ delays = <<>> /\ sizes = <<>> /\ keylog = <<>>
    /\ activeAtStart = FALSE /\ finReq = NoFin /\ rejected = FALSE
    /\ lateFrame = FALSE /\ quit = "no" /\ evts = <<>>
    /\ finQ = 0 /\ ctl_log = <<>> /\ mic = "ok"
    /\ unit = "test"
    /\ data = NoMsg /\ emitted = "none"
    /\ audio_bytes = <<>> /\ framed = NoFrame /\ now = 0
    /\ thr = [t \in Threads |-> NoThread] /\ captured = 0 /\ wire = <<>>
    /\ test = NoTest
    /\ \E T \in 0..MaxThreshold, a \in {"disconnect", "absent"},
          c \in {"ok", "error"} :
         srv = [NoServer EXCEPT !.threshold = T, !.action = a, !.code = c]

TestNext ==
    \/ T_Connect \/ T_Iterate \/ T_Sleep \/ T_Wait \/ T_Extra \/ T_Rest
    \/ T_Finally \/ T_Report
    \/ H_Message \/ H_Closed
    \/ S_Verify \/ N_Deliver

TestSpec == TestInit /\ [][TestNext]_vars

\* ------------------------------------------------------------------- claims

Total(f) == f.key + f.worker

\* C1: with max_retries = 6 and base_backoff = 1, when run() leaves its loop
\* the delays it slept are exactly 1, 2, 4, 8, 16, 32 (no further one) and no
\* session was started after the 6th failed one.
DelaysSlept == [i \in 1..Len(delays) |-> delays[i].delay]

C1_ReconnectBound ==
    pc = "exit" => /\ DelaysSlept = <<1, 2, 4, 8, 16, 32>>
                   /\ Len(sizes) = 6

\* C2: every delay slept equals base_backoff * 2^(attempt-1), attempt being
\* the counter after its increment for the session that just ended (the i-th
\* delay belongs to attempt i), so each delay is twice the previous one.
C2_BackoffFormula ==
    \A i \in 1..Len(delays) :
        /\ delays[i].attempt = i
        /\ delays[i].delay = base_backoff * 2 ^ (delays[i].attempt - 1)
        /\ i > 1 => delays[i].delay = 2 * delays[i - 1].delay

C2_Witness == Len(delays) >= 3 /\ delays[3].delay = 4

\* C3: the chunk sizes of successive sessions never increase, the chunk index
\* stays inside the table, and the first six sessions use 4096, 2048, 1024,
\* 1024, 1024, 1024.
C3_ChunkDegradation ==
    /\ chunk_index \in 0..(Len(CHUNK_SIZES) - 1)
    /\ current_chunk = CHUNK_SIZES[chunk_index + 1]
    /\ \A i \in 1..(Len(sizes) - 1) : sizes[i + 1] <= sizes[i]
    /\ \A i \in 1..Len(sizes) :
         i <= 6 => sizes[i] = <<4096, 2048, 1024, 1024, 1024, 1024>>[i]

C3_Witness == Len(sizes) >= 6 /\ pc = "active"
\* C4: once retries exceeds max_retries no session is started any more; when
\* run() has returned, stop_threads is set and the capture resource is
\* released; and if every session eventually ends, run() does return.
C4_PermanentExhaustion ==
    /\ [](retries > max_retries => pc \in {"loop", "exit", "done"})
    /\ [](pc = "done" => stop_threads /\ stream = 0 /\ p_terminated
                         /\ retries = max_retries + 1)
    /\ ([](pc = "active" => <>(~running))) => <>(pc = "done")

C4_Witness == pc = "done" /\ stop_threads /\ Len(sizes) = max_retries + 1

\* C5 (as claimed): in hotkey mode, a press followed by the release during an
\* Active session yields exactly one finalize-now request and leaves active
\* false.
C5_HotkeyOneFinalize ==
    (~toggle_mode /\ pc = "active" /\ keylog = <<"press", "release">>)
        => (~ptt_active /\ Total(finReq) = 1)

\* C5 (amended): the release handler issues exactly one finalize-now request
\* and leaves active false; the session's capture loop issues at most one
\* more (when it had seen the key held).
C5_HotkeyFinalize ==
    (~toggle_mode /\ pc = "active" /\ keylog = <<"press", "release">>)
        => (~ptt_active /\ finReq.key = 1 /\ finReq.worker <= 1)

C5_Witness ==
    /\ ~toggle_mode /\ pc = "active" /\ running
    /\ keylog = <<"press", "release">>
    /\ ~ptt_active /\ finReq.key = 1 /\ finReq.worker = 1
    /\ worker = [pc |-> "top", was_active |-> FALSE]

\* the capture loop of the session has caught up with the activation flag
CaughtUp == worker.pc = "top" /\ worker.was_active = ptt_active

C7_NoFrameAfterRejection == ~lateFrame

\* C8: after data_corruption was received on an Active session, run() gets
\* to the end of its backoff for that session, and then starts a new session
\* unless the attempts are exhausted; the attempt counter moves by exactly
\* one per ended session (it is one less than the number of sessions started
\* while a session is under way, and equal to it after the backoff) and the
\* chunk index moves with it, by one or not at all at the last entry.
InSession == pc \in {"connect", "active", "teardown", "close_data", "close_stream",
                     "join", "decide"}

C8_RejectionFeedsReconnect ==
    /\ [][retries' # retries =>
            /\ pc = "decide" /\ retries' = retries + 1
            /\ chunk_index' = IF chunk_index < 2 THEN chunk_index + 1 ELSE 2]_vars
    /\ [](InSession => retries = Len(sizes) - 1 /\ Len(delays) = retries)
    /\ [](pc = "loop" => retries = Len(sizes) /\ Len(delays) = retries)
    /\ (rejected /\ pc = "active") ~> (pc = "loop")
    /\ (pc = "loop") ~> \/ pc = "connect" /\ retries <= max_retries
                        \/ pc = "exit" /\ retries > max_retries

C8_Witness == rejected /\ ~running /\ pc = "teardown" /\ retries = 1 /\ chunk_index = 1

\* C9: when the peer has closed the data connection or the transport failed
\* and the listener has ended, the session is no longer running.
C9_PeerCloseTerminal ==
    (pc = "active" /\ peer = "closed" /\ recv = "done") => ~running

\* C10: once the quit key was received, run() enters no new session.
C10_QuitShutsDown == quit # "restarted"

\* C11: once running is cleared during a session, the listener is cancelled
\* (or has ended), the control and the data channel are closed and the
\* session's capture thread has left its loop, eventually.
C11_Cancellation ==
    (pc = "active" /\ ~running)
        ~> (recv = "done" /\ control_ws = "none" /\ ws = "none"
            /\ worker.pc = "off")

\* entry i of evts is of kind k by w
IsEv(i, w, k) == i \in 1..Len(evts) /\ evts[i].who = w /\ evts[i].what = k
\* the last deactivation before entry i (0 if it precedes the entries kept)
LastOff(i) ==
    LET offs == {d \in 1..(i - 1) : evts[d].what = "off"} IN
    IF offs = {} THEN 0 ELSE CHOOSE d \in offs : \A e \in offs : e <= d

TailStep == worker.pc = "tail" /\ worker'.pc # "tail"

C14_SingleFeeder ==
    \A i \in 1..Len(evts) :
        evts[i].what \in {"audio", "silence"} => evts[i].who # "old"

\* C15: when a captured frame is submitted although the data connection is
\* closed (so that its send fails), running is cleared.
C15_SendFailureTerminal ==
    [][(chunks_sent' = chunks_sent + 1 /\ peer = "closed") => ~running']_vars

\* C16: when open_stream() fails, running is cleared, the capture thread ends
\* and nothing is submitted or acquired in that step; one_session and run()
\* are where they were (the session ends as any other); and the capture
\* thread of every session starts anew (was_active = False) and goes to
\* open_stream() when it finds active set.
C16_CaptureFailure ==
    /\ [][(mic = "ok" /\ mic' = "failed") =>
            /\ ~running'
            /\ NumAlive' = NumAlive - 1
            /\ UNCHANGED <<evts, chunks_sent, stream, pc, retries, chunk_index>>]_vars
    /\ [][(pc = "connect" /\ pc' = "active") =>
            worker' = [pc |-> "top", was_active |-> FALSE]]_vars
    /\ [][(/\ worker.pc = "top" /\ ~worker.was_active /\ worker' # worker
           /\ ptt_active /\ running /\ ~stop_threads)
            => worker'.pc = "open"]_vars

C16_Witness ==
    /\ mic = "failed" /\ pc = "active" /\ ~running
    /\ worker.pc = "off" /\ stream = 0 /\ ptt_active
    /\ \A i \in 1..Len(evts) : evts[i].what # "audio"

\* C17: a session whose data channel connected becomes Active whether or not
\* the control channel connected; without a control channel, a finalize-now
\* request that is run attempts no send and changes nothing else.
C17_ControlBestEffort ==
    /\ [][(pc = "connect" /\ ws' = "open") => (pc' = "active" /\ running')]_vars
    /\ [](pc = "active" /\ control_ws = "none" => ctl_log = <<>>)
    /\ [][(finQ' < finQ /\ control_ws = "none") =>
            ctl_log' = <<>> /\ UNCHANGED <<running, ws, control_ws, pc>>]_vars

C17_Witness ==
    /\ pc = "active" /\ running /\ control_ws = "none"
    /\ Total(finReq) >= 1 /\ finQ = 0 /\ ctl_log = <<>>

\* C18: a finalize-now request that is run with a control channel attempts
\* stop and then clear_audio_queue, both of them whether or not a send
\* fails; running and the data channel are left as they were.
C18_FinalizeTwoCommands ==
    /\ [](ctl_log # <<>> =>
            /\ Len(ctl_log) = 2
            /\ ctl_log[1].cmd = "stop"
            /\ ctl_log[2].cmd = "clear_audio_queue")
    /\ [][finQ' < finQ =>
            /\ (control_ws # "none" => Len(ctl_log') = 2)
            /\ UNCHANGED <<running, ws, peer, control_ws, recv, pc>>]_vars

C18_Witness ==
    /\ pc = "active" /\ running /\ ws = "open"
    /\ ctl_log = <<[cmd |-> "stop", sent |-> FALSE],
                   [cmd |-> "clear_audio_queue", sent |-> TRUE]>>

\* C19: the teardown of a session cancels the listener and closes the control
\* channel, then closes the data channel, then releases the capture
\* resource, then joins the capture thread: each step is followed by the
\* next one whether or not a close operation raised.
C19_ClosingSequence ==
    /\ [](pc = "close_data" => recv = "done" /\ control_ws = "none")
    /\ [](pc \in {"close_stream", "join"} =>
            recv = "done" /\ control_ws = "none" /\ ws = "none")
    /\ [](pc = "decide" =>
            recv # "listening" /\ control_ws = "none" /\ ws = "none")
    /\ [][(pc = "teardown" /\ pc' # pc) =>
            pc' = "close_data" /\ recv' = "done" /\ control_ws' = "none"]_vars
    /\ [][(pc = "close_data" /\ pc' # pc) =>
            pc' = "close_stream" /\ ws' = "none"]_vars
    /\ [][(pc = "close_stream" /\ pc' # pc) => pc' = "join" /\ stream' = 0]_vars
    /\ [][(pc = "join" /\ pc' # pc) => pc' = "decide"]_vars

C19_Witness ==
    /\ pc = "join" /\ recv = "done" /\ control_ws = "none" /\ ws = "none"
    /\ stream = 0 /\ worker.pc = "off" /\ chunks_sent > 0

\* C20: disconnect_ws, disconnect_control and close_stream never raise,
\* whatever the handle and whether or not the close operation fails, and a
\* second call in a row leaves what the first one left: no handle.
C20_IdempotentShutdown ==
    \A e1, e2 \in BOOLEAN :
        /\ LET a == disconnect_ws(ws, e1)
               b == disconnect_ws(a.h, e2)
           IN  ~a.raised /\ ~b.raised /\ a.h = "none" /\ b = a
        /\ LET a == disconnect_control(control_ws, e1)
               b == disconnect_control(a.h, e2)
           IN  ~a.raised /\ ~b.raised /\ a.h = "none" /\ b = a
        /\ LET a == close_stream(stream, e1)
               b == close_stream(a.h, e2)
           IN  ~a.raised /\ ~b.raised /\ a.h = 0 /\ b = a

C20_Witness ==
    /\ pc = "done" /\ p_terminated
    /\ stream = 0 /\ ws = "none" /\ control_ws = "none"
    /\ Len(sizes) = max_retries + 1 /\ chunks_sent > 0

\* C21: what the listener does with an inbound JSON message follows from its
\* type: error with error = data_corruption ends the session; fullSentence
\* gives a final-transcript event; recording_start and recording_stop give a
\* lifecycle event; realtime and the eight progress kinds give nothing and
\* change nothing; every other message, an error of another sub-kind
\* included, gives a generic event and the session keeps running.
C21_InboundClassification ==
    (unit = "listener" /\ data.form \in {"object", "non_object"}) =>
        IF data.type = "error" /\ data.error = "data_corruption"
        THEN ~running /\ recv = "done"
        ELSE /\ running /\ recv = "listening"
             /\ emitted = CASE data.type = "fullSentence" -> "final"
                            [] data.type \in {"recording_start",
                                              "recording_stop"} -> "lifecycle"
                            [] data.type \in Silenced -> "none"
                            [] OTHER -> "generic"

\* reading a frame back: the four-byte length, that many bytes of metadata
\* (a flat JSON object), the rest
unpack_I(b) == b[1] + 256 * b[2] + 65536 * b[3] + 16777216 * b[4]
\* the first place at or after i where the two-byte separator sep is found
RECURSIVE FindFrom(_, _, _)
FindFrom(q, sep, i) ==
    IF i + 1 > Len(q) THEN 0
    ELSE IF q[i] = sep[1] /\ q[i + 1] = sep[2] THEN i
    ELSE FindFrom(q, sep, i + 1)
Find(q, sep) == FindFrom(q, sep, 1)
RECURSIVE Split(_, _)
Split(q, sep) ==
    LET i == Find(q, sep) IN
    IF i = 0 THEN <<q>>
    ELSE <<SubSeq(q, 1, i - 1)>> \o Split(SubSeq(q, i + Len(sep), Len(q)), sep)
RECURSIVE Number(_)
Number(d) ==
    IF d = <<>> THEN Wide(0)
    ELSE LET v == Number(SubSeq(d, 1, Len(d) - 1))
             l == v.lo * 10 + (d[Len(d)] - 48)
         IN  [hi |-> v.hi * 10 + l \div 65536, lo |-> l % 65536]
json_loads(text) ==
    LET ms == Split(SubSeq(text, 2, Len(text) - 1), J_comma)
    IN  [i \in 1..Len(ms) |->
            LET kv == Split(ms[i], J_colon)
            IN  [key |-> kv[1], val |-> IF Len(kv) > 1 THEN kv[2] ELSE <<>>]]
Member(meta, k) ==
    LET at == {i \in 1..Len(meta) : meta[i].key = k}
    IN  IF at = {} THEN <<>> ELSE meta[CHOOSE i \in at : TRUE].val
Decode(f) ==
    IF Len(f) < 4 \/ Len(f) - 4 < unpack_I(f)
    THEN [meta |-> <<>>, audio |-> <<>>]
    ELSE LET n == unpack_I(f)
         IN  [meta |-> json_loads(SubSeq(f, 5, 4 + n)),
              audio |-> SubSeq(f, 5 + n, Len(f))]
Field(meta, k) == Number(Member(meta, k))
DataLengthOf(f) == Number(Member(Decode(f).meta, K_dataLength))
SampleRateOf(f) == Number(Member(Decode(f).meta, K_sampleRate))
ChecksumOf(f) == Number(Member(Decode(f).meta, K_checksum))
TimestampOf(f) == Number(Member(Decode(f).meta, K_timestamp))
Before(v, w) == v.hi < w.hi \/ (v.hi = w.hi /\ v.lo <= w.lo)

\* the captured frames among those handed over
AudioSent == {i \in 1..Len(wire) : wire[i].kind = "audio"}
SilenceSent == {i \in 1..Len(wire) : wire[i].kind = "silence"}
Offs == {i \in 1..Len(wire) : wire[i].kind = "off"}
\* thread t hands its frame over (or drops it) in this step
SendStep(t) == thr[t].pc = "send" /\ thr'[t].pc # "send"
\* thread t completes self.chunks_sent += 1 in this step
CountStep(t) == thr[t].pc = "count" /\ thr'[t].pc # "count"
\* the threads that handed a frame over and have not counted it yet
Counting == {t \in Threads : thr[t].pc = "count"}

\* C22: while the session is running and its data channel is held, every
\* cycle in which the device returns a buffer of chunk size c submits exactly
\* one frame and adds one to chunks_sent; the frames submitted have
\* dataLength = c and sampleRate = 16000, their timestamps never decrease
\* along the order of submission, and chunks_sent is their number (less
\* those whose increment is under way).
C22_SteadyStateSending ==
    /\ [](unit = "capture" =>
            /\ chunks_sent + Cardinality(Counting) = Cardinality(AudioSent)
            /\ \A i \in AudioSent :
                 /\ DataLengthOf(wire[i].bytes) = Wide(current_chunk)
                 /\ SampleRateOf(wire[i].bytes) = Wide(16000)
            /\ \A i, j \in AudioSent :
                 i < j => Before(TimestampOf(wire[i].bytes),
                                 TimestampOf(wire[j].bytes)))
    /\ [][\A t \in Threads :
            /\ (SendStep(t) /\ ws # "none" /\ running) =>
                  (Len(wire') = Len(wire) + 1 /\ thr'[t].pc = "count")
            /\ CountStep(t) => chunks_sent' = chunks_sent + 1]_vars

\* C23: the captured frames are handed to the data channel in the order in
\* which they were captured, and the frames captured before a deactivation
\* are handed over before the tail silence of that deactivation.
C23_FrameOrder ==
    unit = "capture" =>
        /\ \A i, j \in AudioSent : i < j => wire[i].seq < wire[j].seq
        /\ \A k \in Offs, i \in SilenceSent, j \in AudioSent :
             (k < i /\ wire[j].seq <= wire[k].seq) => j < i

\* the sum of the samples of a, each sample its low byte plus 256 times its
\* high byte, less 65536 when the high byte has its top bit set
RECURSIVE SampleSum(_, _)
SampleSum(a, k) ==
    IF k = 0 THEN 0
    ELSE LET u == a[2 * k - 1] + 256 * a[2 * k]
         IN  SampleSum(a, k - 1) + (IF a[2 * k] >= 128 THEN u - 65536 ELSE u)
\* x modulo 2^32 in halves: x itself, or for a negative x the complement of
\* -x - 1
Mod32(x) ==
    IF x >= 0 THEN Wide(x)
    ELSE [hi |-> 65535 - ((-x - 1) \div 65536),
          lo |-> 65535 - ((-x - 1) % 65536)]
Called == framed # NoFrame

C25_FrameRoundTrip ==
    (unit = "framing" /\ Len(audio_bytes) % 2 = 0 /\ Called) =>
        /\ ~framed.raised
        /\ SampleRateOf(framed.bytes) = Wide(16000)
        /\ DataLengthOf(framed.bytes) = Wide(Len(audio_bytes) \div 2)
        /\ ChecksumOf(framed.bytes) = checksum_int16(audio_bytes)
        /\ Decode(framed.bytes).audio = audio_bytes

C25_Witness ==
    /\ unit = "framing" /\ audio_bytes = <<0, 128>> /\ Called
    /\ Decode(framed.bytes).audio = <<0, 128>>
    /\ DataLengthOf(framed.bytes) = Wide(1)
    /\ ChecksumOf(framed.bytes) = [hi |-> 65535, lo |-> 32768]

\* C26: every frame handed to the data channel, captured audio or tail
\* silence, has an audio part of dataLength * 2 bytes and carries the
\* checksum of that part; a tail-silence frame has dataLength = current_chunk
\* and checksum 0.
C26_FrameInvariant ==
    unit = "capture" =>
        \A i \in AudioSent \cup SilenceSent :
            LET d == Decode(wire[i].bytes)
                dataLength == Field(d.meta, K_dataLength)
                checksum == Field(d.meta, K_checksum)
            IN  /\ dataLength.hi = 0
                /\ Len(d.audio) = 2 * dataLength.lo
                /\ checksum = checksum_int16(d.audio)
                /\ wire[i].kind = "silence" =>
                     /\ dataLength = Wide(current_chunk)
                     /\ checksum = Wide(0)

C26_Witness ==
    /\ unit = "capture"
    /\ \E i \in AudioSent : ChecksumOf(wire[i].bytes) = [hi |-> 65535, lo |-> 65535]
    /\ \E i \in SilenceSent : Decode(wire[i].bytes).audio = <<0, 0>>

\* C27: frame() applied to audio of odd length raises and gives no frame; in
\* the capture loop, the cycle that read such a buffer ends without handing
\* anything to the data channel and without counting a chunk.
C27_OddLengthAudio ==
    /\ []((unit = "framing" /\ Len(audio_bytes) % 2 = 1 /\ Called) =>
            framed.raised /\ framed.bytes = <<>>)
    /\ [][\A t \in Threads :
            (/\ thr[t].pc = "frame" /\ Len(thr[t].audio_bytes) % 2 = 1
             /\ thr'[t] # thr[t])
            => /\ thr'[t].pc = "top"
               /\ UNCHANGED <<wire, chunks_sent>>]_vars
    /\ [](unit = "capture" =>
            \A i \in AudioSent : Len(Decode(wire[i].bytes).audio) % 2 = 0)

C27_Witness ==
    /\ unit = "capture" /\ captured = 1 /\ wire = <<>> /\ chunks_sent = 0
    /\ thr["cur"] = [NoThread EXCEPT !.pc = "top", !.was_active = TRUE]
    /\ thr["old"].pc = "off" /\ stream # 0 /\ ptt_active /\ running

\* a step of a capture thread, of an input handler
CaptureStep == \E t \in Alive : WorkerStep(t)
InputStep ==
    \/ OnPressSpace \/ OnReleaseSpace \/ OnPressQuit
    \/ ToggleSpace \/ ToggleQuit \/ ToggleLoopEnd

\* C28: ptt_active is written only by the handlers of the modality chosen at
\* startup, which never changes (press and release in hotkey mode, the
\* toggle thread in toggle mode); the capture threads, the listener, the
\* session and the reconnect loop leave it as it is, so every session starts
\* with the value the previous one ended with.
C28_SingleWriter ==
    /\ [][toggle_mode' = toggle_mode]_vars
    /\ [][ptt_active' # ptt_active =>
            IF toggle_mode THEN ToggleSpace
            ELSE OnPressSpace \/ OnReleaseSpace]_vars
    /\ [][(pc' # pc \/ recv' # recv \/ CaptureStep) =>
            ptt_active' = ptt_active]_vars

C28_Witness ==
    /\ pc = "active" /\ Len(sizes) = 2 /\ ptt_active /\ activeAtStart
    /\ keysLeft = MaxKeys - 1

\* C29: a capture thread or an input handler never closes or opens a
\* channel and never sends on the control channel itself: each finalize-now
\* request it makes is one more control_stop_and_clear() handed to the event
\* loop, and the sends on the control channel are steps of the event loop.
C29_SingleOwner ==
    /\ [][(CaptureStep \/ InputStep) =>
            /\ UNCHANGED <<ws, control_ws, peer, recv, ctl_log>>
            /\ IF Len(evts') > Len(evts) /\ evts'[Len(evts')].what = "finalize"
               THEN finQ' = finQ + 1
               ELSE finQ' >= finQ]_vars
    /\ [][(ctl_log' # ctl_log /\ ctl_log' # <<>>) =>
            /\ finQ' = finQ - 1 /\ pc \in LoopFree
            /\ UNCHANGED <<worker, old, keysLeft>>]_vars

C29_Witness ==
    /\ pc = "active" /\ ws = "open" /\ control_ws = "open" /\ finQ = 0
    /\ ctl_log = <<[cmd |-> "stop", sent |-> TRUE],
                   [cmd |-> "clear_audio_queue", sent |-> TRUE]>>
    /\ chunks_sent = 1
    /\ \E i \in 1..Len(evts) : IsEv(i, "loop", "audio")
    /\ IsEv(Len(evts), "loop", "finalize")

\* C30: within one run, retries and chunk_index never decrease and never go
\* back to their initial value 0, whatever the session that ended did.
C30_RetryStateNeverReset ==
    [][/\ retries' >= retries /\ chunk_index' >= chunk_index
       /\ retries > 0 => retries' > 0
       /\ chunk_index > 0 => chunk_index' > 0
       /\ current_chunk' <= current_chunk]_vars

C30_Witness ==
    /\ pc = "active" /\ retries = 2 /\ chunk_index = 2 /\ chunks_sent > 0
    /\ Len(sizes) = 3 /\ \A i \in 1..Len(evts) : evts[i].what # "audio"

\* the chunk index after n ended sessions
IndexAfter(n) == IF n < Len(CHUNK_SIZES) - 1 THEN n ELSE Len(CHUNK_SIZES) - 1
\* the step that ends the session under way, and why it ends
EndRejected == pc = "active" /\ pc' = "teardown" /\ rejected
EndTransport == pc = "active" /\ pc' = "teardown" /\ peer = "closed"
EndCapture == pc = "active" /\ pc' = "teardown" /\ mic = "failed"
EndQuit == pc = "active" /\ pc' = "teardown" /\ quit = "requested"
EndConnect == pc = "connect" /\ pc' = "decide"

\* C32: whatever ended a session (a rejection, a transport failure, a failed
\* connect of the data channel, a capture failure, the quit key), run() then
\* advances chunk_index by exactly one, or leaves it if it is at the last
\* entry: with n sessions ended it is min(n, last index), and it is changed
\* nowhere else.
C32_DegradationAnyReason ==
    /\ [][(EndRejected \/ EndTransport \/ EndCapture \/ EndQuit \/ EndConnect)
            => /\ chunk_index' = chunk_index
               /\ chunk_index = IndexAfter(Len(sizes) - 1)]_vars
    /\ [][(pc = "decide" /\ pc' # "decide") =>
            chunk_index' = IF chunk_index < Len(CHUNK_SIZES) - 1
                           THEN chunk_index + 1 ELSE chunk_index]_vars
    /\ [][chunk_index' # chunk_index => pc = "decide"]_vars
    /\ [](pc \in {"loop", "exit", "done"} =>
            chunk_index = IndexAfter(Len(sizes)))
    /\ [](pc \in {"connect", "active"} => retries = Len(sizes) - 1)

C32_Witness ==
    /\ pc = "loop" /\ quit = "requested" /\ Len(sizes) = 2 /\ chunk_index = 2
    /\ retries = 2

\* what a key handler can change in the program, the requests it makes
\* included
Program == <<progVars, ctlVars, loopVars, peer, finReq, evts>>

\* C35: on_press(space) while ptt_active changes nothing and requests
\* nothing; on_release(space) while not ptt_active changes nothing and
\* requests nothing; on_release requests control_stop_and_clear() only when it
\* turns ptt_active from True to False, and then once.
C35_HotkeyIdempotent ==
    /\ [][(OnPressSpace /\ ptt_active) => UNCHANGED Program]_vars
    /\ [][(OnReleaseSpace /\ ~ptt_active) => UNCHANGED Program]_vars
    /\ [][OnPressSpace => UNCHANGED <<finQ, finReq, evts>>]_vars
    /\ [][(OnReleaseSpace /\ (finQ' # finQ \/ finReq' # finReq)) =>
            /\ ptt_active /\ ~ptt_active'
            /\ finQ' \in {finQ, finQ + 1}
            /\ Total(finReq') \in {Total(finReq), Total(finReq) + 1}]_vars

C35_Witness ==
    /\ pc = "active" /\ running /\ loop /\ ~activeAtStart
    /\ keylog = <<"release", "release">>
    /\ ~ptt_active /\ finQ = 0 /\ finReq = NoFin /\ evts = <<>>

\* C36: running is set, and the listener and the capture thread are started,
\* only in the step in which the data channel connected; when the connect
\* of the data channel fails, no listener and no capture thread is started,
\* no channel is open afterwards, running is false as before, and run()
\* counts the attempt as it counts any ended session.
C36_ActiveAfterConnect ==
    /\ [][(running' /\ ~running) => (pc = "connect" /\ ws' = "open")]_vars
    /\ [][(recv' = "listening" /\ recv # "listening") =>
            (pc = "connect" /\ ws' = "open")]_vars
    /\ [][NumAlive' > NumAlive => (pc = "connect" /\ ws' = "open")]_vars
    /\ [][(pc = "connect" /\ pc' = "decide") =>
            /\ ~running /\ ~running'
            /\ recv' = recv /\ recv' # "listening"
            /\ worker' = worker /\ old' = old
            /\ ws' = "none" /\ control_ws' = "none"
            /\ retries' = retries]_vars
    /\ [][(pc = "decide" /\ pc' # "decide") => retries' = retries + 1]_vars
    /\ [](pc = "decide" => retries = Len(sizes) - 1)

C36_Witness ==
    /\ pc = "loop" /\ Len(sizes) = 1 /\ retries = 1 /\ Len(delays) = 1
    /\ recv = "idle" /\ worker.pc = "off" /\ old = EmptyBag
    /\ ~running /\ ws = "none" /\ control_ws = "none"

\* C37: the client holds one handle of each kind, a channel is opened only
\* when no handle of its kind is held (connect_ws() and connect_control()
\* close the previous one first), no data connection is open at the peer
\* without the client holding it, and once one_session() has returned, on
\* whatever path, both handles are None.
C37_OneChannelOfEachKind ==
    /\ [](ws \in {"none", "open"} /\ control_ws \in {"none", "open"})
    /\ [][(ws' = "open" /\ pc = "connect") =>
            (ws = "none" /\ control_ws = "none")]_vars
    /\ [][(ws' = "open" /\ ws = "none") => pc = "connect"]_vars
    /\ [][(control_ws' = "open" /\ control_ws = "none") => pc = "connect"]_vars
    /\ [](peer = "open" => ws = "open")
    /\ [](pc \in {"start", "loop", "decide", "exit", "done"} =>
            (ws = "none" /\ control_ws = "none"))

C37_Witness ==
    /\ pc = "active" /\ ws = "open" /\ control_ws = "open" /\ Len(sizes) = 3
    /\ retries = 2 /\ running

\* C38: chunks_sent never decreases; it moves only where a capture thread
\* completes the increment for a captured frame it has handed to the data
\* channel, by exactly one, so that it is the number of captured frames
\* handed over (less those whose increment is under way); the tail silence
\* and a cycle that hands nothing over leave it as it is.
C38_SentCounter ==
    /\ [][chunks_sent' >= chunks_sent]_vars
    /\ [][(unit = "capture" /\ chunks_sent' # chunks_sent) =>
            /\ chunks_sent' = chunks_sent + 1
            /\ \E t \in Threads : CountStep(t)
            /\ wire' = wire]_vars
    /\ [](unit = "capture" =>
            chunks_sent + Cardinality(Counting) = Cardinality(AudioSent))
    /\ [][\A t \in Threads :
            (thr[t].pc \in {"top", "tail", "open", "read", "frame"}
             /\ thr'[t] # thr[t]) => chunks_sent' = chunks_sent]_vars

\* the positions of the active branch of one cycle of audio_worker()
ActiveBranch == {"open", "read", "frame", "send", "count"}
\* what this step appended to what was handed over
Appended == IF Len(wire') >= Len(wire) THEN SubSeq(wire', Len(wire) + 1, Len(wire'))
            ELSE <<>>
\* thread t is idle after a tail action of its own
IdleAfterTail(t) ==
    /\ thr[t].pc = "top" /\ ~thr[t].was_active /\ ~ptt_active
    /\ \E i \in SilenceSent : wire[i].who = t

\* C33: a capture thread enters the active branch of a cycle only from the
\* test in which it found ptt_active set, and hands a captured frame over
\* only there; from a test in which it found ptt_active clear it goes to the
\* tail action or idles, the tail action hands over nothing but two frames of
\* silence, and while the thread idles after its tail action no stream is
\* open.
C33_ActivationGating ==
    /\ [][\A t \in Threads :
            (thr'[t].pc \in ActiveBranch /\ thr[t].pc \notin ActiveBranch)
                => (thr[t].pc = "top" /\ ptt_active)]_vars
    /\ [][\A t \in Threads :
            (thr[t].pc = "top" /\ ~ptt_active /\ thr'[t] # thr[t])
                => thr'[t].pc \in {"top", "tail", "off"}]_vars
    /\ [][\A i \in 1..Len(Appended) :
            LET e == Appended[i] IN
            /\ e.kind = "audio" => thr[e.who].pc = "send"
            /\ e.kind = "silence" =>
                 /\ thr[e.who].pc = "tail" /\ Len(Appended) = 2
                 /\ Appended[1] = Appended[2]
                 /\ Decode(e.bytes).audio = Zeros(2 * current_chunk)]_vars
    /\ [](unit = "capture" => \A t \in Threads : IdleAfterTail(t) => stream = 0)

\* C34: when one_session() has gone through its teardown and the capture
\* thread it started has ended, no stream is open.
C34_CaptureReleased ==
    (pc \in {"decide", "loop", "exit"} /\ Len(sizes) >= 1 /\ worker.pc = "off"
     /\ old = EmptyBag)
        => stream = 0

\* C39: a message that json.loads() does not accept is skipped: nothing is
\* printed for it, running and every other field of the client, the listener
\* and the threads are as before, and the listener is listening still, so
\* that the message that follows is classified as any other.
C39_UndecodableSkipped ==
    /\ [][(unit = "listener" /\ data' # data /\ data'.form = "not_json") =>
            /\ emitted' = "none"
            /\ UNCHANGED <<progVars, ctlVars, envVars, histVars, loopVars, mic>>]_vars
    /\ []((unit = "listener" /\ data.form = "not_json") =>
            (running /\ recv = "listening" /\ emitted = "none"))
    /\ [][(unit = "listener" /\ data.form = "not_json" /\ data' # data) =>
            /\ emitted' = (CASE data'.form = "non_object" -> "receiver_error"
                             [] IsCorruption(data') -> "rejected"
                             [] data'.type = "fullSentence" -> "final"
                             [] data'.type \in {"recording_start",
                                                "recording_stop"} -> "lifecycle"
                             [] data'.type \in Silenced -> "none"
                             [] OTHER -> "generic")
            /\ running' = ~(IsCorruption(data') \/ data'.form = "non_object")]_vars

C39_Witness ==
    /\ unit = "listener" /\ data = Msg("not_json", "absent", "absent")
    /\ running /\ recv = "listening" /\ emitted = "none"

====
